---- MODULE Spec2Model ----
(***************************************************************************)
(* Model of the patient-report application: the age parser, the column     *)
(* selector, the age-band classifier, the dataset combiner, the file-name  *)
(* analyzer and the week reconciler of src/src/App.jsx, and their          *)
(* counterparts in the scheduled job scripts/apps-script/weekly-report.gs. *)
(*                                                                         *)
(* A JavaScript string is a sequence of one-character strings.  The token  *)
(* "se" stands for the Hangul syllable of "12<se>", and "chong", "hwan",   *)
(* "ja", "su", "bal", "yeol" for the syllables of the two file suffixes.   *)
(* A finite JavaScript number is the exact rational num/den.               *)
(***************************************************************************)
EXTENDS Integers, Sequences, FiniteSets, TLC

VARIABLES
    cell,       \* SpecAge: the raw cell value handed to normalizeAge
    appAge,     \* SpecAge: result of App.jsx normalizeAge, or Unset
    gsAge,      \* SpecAge: result of weekly-report.gs normalizeAge, or Unset
    workbook,   \* SpecSheet: the sheets of one document, in document order
    appBest,    \* SpecSheet: result of App.jsx findAgesInWorkbook, or Unset
    gsBest,     \* SpecSheet: best of weekly-report.gs extractAgesFromExcel, or Unset
    visitAges,    \* SpecCounts: visitUpload.ages / aggregateWeek visitAges
    feverAges,    \* SpecCounts: feverUpload.ages / aggregateWeek feverAges
    visitCounts,  \* SpecCounts: useMemo buildCounts(visitUpload.ages), or Unset
    feverCounts,  \* SpecCounts: the fever tree handed to combineCounts, or Unset
    uploadGroups, \* SpecCounts: useMemo combineCounts(visitCounts, feverCounts), or Unset
    uploadView,   \* SpecCounts: the ratios App renders in upload mode, or Unset
    gsWeek,       \* SpecCounts: the record aggregateWeek returns, or Unset
    dateStrings,  \* SpecWeek: the argument of analyzeWeekDates
    weekCheck,    \* SpecWeek: the result of analyzeWeekDates, or Unset
    fileList,     \* SpecUpload: the files handed to handleUploadFiles
    uploadType,   \* SpecUpload: the dataset kind handed to handleUploadFiles
    parsedFiles,  \* SpecUpload: the results of the files.map callbacks, Unset while pending
    uploadPc,     \* SpecUpload: "parsing" until handleUploadFiles has returned
    visitUpload,  \* SpecUpload: the state set by setVisitUpload
    feverUpload,  \* SpecUpload: the state set by setFeverUpload
    now,          \* SpecJob: new Date() of the run of runWeeklyReport
    driveFolder,  \* SpecJob: the files of the Drive folder, by name
    reportSheet,  \* SpecJob: the rows of the sheet weekly_reports
    jobPc,        \* SpecJob: the position of runWeeklyReport
    jobRange,     \* SpecJob: the result of getPreviousWeekRange, or Unset
    jobRecord,    \* SpecJob: the result of aggregateWeek, or Unset
    runsLeft,     \* SpecJob: the runs of the trigger still to come
    persistedWeeks, \* SpecJob: the weekStart of every record handed to upsertReportRow
    env,          \* SpecHandler: which of process.env and the script file are there
    upstream,     \* SpecHandler: what the token endpoint and the Sheets API answer
    handlerPc,    \* SpecHandler: the position of handler
    responses,    \* SpecHandler: the responses sent, in order
    escaped,      \* SpecHandler: an exception has left handler
    isMounted,    \* SpecLoad: the flag of the effect that loads the reports
    fetchResult,  \* SpecLoad: what fetch(REPORTS_ENDPOINT) will give
    loadPc,       \* SpecLoad: the position of loadReports
    reports,      \* SpecLoad: the state set by setReports
    selectedWeek, \* SpecLoad: the state set by setSelectedWeek
    loadError,    \* SpecLoad: the state set by setLoadError
    isLoading,    \* SpecLoad: the state set by setIsLoading
    missingCell,  \* SpecCell: a cell of the column missing_days
    parsedDays,   \* SpecCell: Some(the result of parseMissingDays), or Unset
    calls         \* SpecCalls: the calls of handleUploadFiles, in the order they started

ageVars == <<cell, appAge, gsAge>>
sheetVars == <<workbook, appBest, gsBest>>
countVars ==
    <<visitAges, feverAges, visitCounts, feverCounts, uploadGroups, uploadView, gsWeek>>
weekVars == <<dateStrings, weekCheck>>
uploadVars == <<fileList, uploadType, parsedFiles, uploadPc, visitUpload, feverUpload>>
jobVars ==
    <<now, driveFolder, reportSheet, jobPc, jobRange, jobRecord, runsLeft, persistedWeeks>>
uploadSideVars == <<ageVars, sheetVars, countVars, weekVars, uploadVars>>
handlerVars == <<env, upstream, handlerPc, responses, escaped>>
loadVars ==
    <<isMounted, fetchResult, loadPc, reports, selectedWeek, loadError, isLoading>>
cellVars == <<missingCell, parsedDays>>
callVars == <<calls>>
restVars == <<jobVars, handlerVars, loadVars, cellVars, callVars>>
notJobVars == <<uploadSideVars, handlerVars, loadVars, cellVars, callVars>>
notHandlerVars == <<uploadSideVars, jobVars, loadVars, cellVars, callVars>>
notLoadVars == <<uploadSideVars, jobVars, handlerVars, cellVars, callVars>>
notCellVars == <<uploadSideVars, jobVars, handlerVars, loadVars, callVars>>
vars ==
    <<cell, appAge, gsAge, workbook, appBest, gsBest,
      visitAges, feverAges, visitCounts, feverCounts, uploadGroups, uploadView, gsWeek,
      dateStrings, weekCheck,
      fileList, uploadType, parsedFiles, uploadPc, visitUpload, feverUpload,
      now, driveFolder, reportSheet, jobPc, jobRange, jobRecord, runsLeft, persistedWeeks,
      env, upstream, handlerPc, responses, escaped,
      isMounted, fetchResult, loadPc, reports, selectedWeek, loadError, isLoading,
      missingCell, parsedDays, calls>>

-----------------------------------------------------------------------------
(* Values                                                                  *)

Null == [k |-> "null"]
Unset == [k |-> "unset"]
Some(x) == [k |-> "some", v |-> x]
IntVal(n) == [k |-> "int", v |-> n]
NaN == [k |-> "nan"]
Undefined == [k |-> "undefined"]
Num(n, d) == [k |-> "num", num |-> n, den |-> d]

NumberCell(n, d) == [t |-> "number", num |-> n, den |-> d]
NonFiniteCell == [t |-> "nonfinite"]
StringCell(s) == [t |-> "string", s |-> s]
NullCell == [t |-> "null"]
UndefinedCell == [t |-> "undefined"]
BooleanCell == [t |-> "boolean"]
ObjectCell == [t |-> "object"]

-----------------------------------------------------------------------------
(* Strings                                                                 *)

DigitChars == {"0", "1", "2", "3", "4", "5", "6", "7", "8", "9"}
WhiteChars == {" "}

IsDigit(c) == c \in DigitChars

DigitVal(c) ==
    CASE c = "0" -> 0 [] c = "1" -> 1 [] c = "2" -> 2 [] c = "3" -> 3
      [] c = "4" -> 4 [] c = "5" -> 5 [] c = "6" -> 6 [] c = "7" -> 7
      [] c = "8" -> 8 [] c = "9" -> 9

Min(S) == CHOOSE x \in S : \A y \in S : x <= y
Max(S) == CHOOSE x \in S : \A y \in S : x >= y

RECURSIVE Pow10(_)
Pow10(n) == IF n = 0 THEN 1 ELSE 10 * Pow10(n - 1)

\* The decimal value of a sequence of digit characters.
RECURSIVE DecimalValue(_)
DecimalValue(ds) ==
    IF ds = <<>> THEN 0
    ELSE 10 * DecimalValue(SubSeq(ds, 1, Len(ds) - 1)) + DigitVal(ds[Len(ds)])

\* String.prototype.trim
RECURSIVE Trim(_)
Trim(s) ==
    IF s = <<>> THEN s
    ELSE IF s[1] \in WhiteChars THEN Trim(Tail(s))
    ELSE IF s[Len(s)] \in WhiteChars THEN Trim(SubSeq(s, 1, Len(s) - 1))
    ELSE s

\* The last index of the maximal run of characters of set C that starts at i.
RunEnd(s, i, C) ==
    CHOOSE j \in i..Len(s) :
        /\ \A k \in i..j : s[k] \in C
        /\ j = Len(s) \/ s[j + 1] \notin C

NoMatch == <<"<no match>">>

\* Number(text) for the texts the parsers hand it: an unsigned decimal
\* literal is its value, the empty text is 0, any other text is NaN.
ToNumber(text) ==
    LET t == Trim(text)
        dots == {i \in 1..Len(t) : t[i] = "."}
    IN  IF t = <<>> THEN Num(0, 1)
        ELSE IF \E i \in 1..Len(t) : ~IsDigit(t[i]) /\ t[i] # "." THEN NaN
        ELSE IF dots = {} THEN Num(DecimalValue(t), 1)
        ELSE IF Cardinality(dots) > 1 THEN NaN
        ELSE LET p == Min(dots)
                 ip == SubSeq(t, 1, p - 1)
                 fp == SubSeq(t, p + 1, Len(t))
             IN  IF ip = <<>> /\ fp = <<>> THEN NaN
                 ELSE Num(DecimalValue(ip) * Pow10(Len(fp)) + DecimalValue(fp),
                          Pow10(Len(fp)))

\* Math.floor of a finite number
MathFloor(x) == x.num \div x.den

-----------------------------------------------------------------------------
(* AgeParser                                                               *)

\* weekly-report.gs: trimmed.match(/(\d+(\.\d+)?)/): the leftmost maximal run
\* of digits, with a following "." and digit run when there is one.
matchNumberGs(s) ==
    LET starts == {i \in 1..Len(s) : IsDigit(s[i])}
    IN  IF starts = {} THEN NoMatch
        ELSE LET i == Min(starts)
                 j == RunEnd(s, i, DigitChars)
                 k == IF j + 2 <= Len(s) /\ s[j + 1] = "." /\ IsDigit(s[j + 2])
                      THEN RunEnd(s, j + 2, DigitChars)
                      ELSE j
             IN  SubSeq(s, i, k)

\* App.jsx: trimmed.match(/(\\d+(\\.\\d+)?)/).  In this regex literal "\\" is
\* a literal backslash (the character "bs"), so the pattern is: a backslash,
\* one or more letters d, and optionally a backslash, any character but a
\* line terminator, a backslash and one or more letters d.
matchNumberApp(s) ==
    LET starts == {i \in 1..Len(s) : s[i] = "bs" /\ i + 1 <= Len(s) /\ s[i + 1] = "d"}
    IN  IF starts = {} THEN NoMatch
        ELSE LET i == Min(starts)
                 j == RunEnd(s, i + 1, {"d"})
                 k == IF /\ j + 4 <= Len(s)
                         /\ s[j + 1] = "bs"
                         /\ s[j + 2] # "nl"
                         /\ s[j + 3] = "bs"
                         /\ s[j + 4] = "d"
                      THEN RunEnd(s, j + 4, {"d"})
                      ELSE j
             IN  SubSeq(s, i, k)

\* App.jsx normalizeAge
normalizeAge_App(value) ==
    IF value.t \in {"null", "undefined"} THEN Null
    ELSE IF value.t = "number" THEN IntVal(MathFloor(value))
    ELSE IF value.t = "string" THEN
        LET trimmed == Trim(value.s)
            match == matchNumberApp(trimmed)
        IN  IF trimmed = <<>> THEN Null
            ELSE IF match = NoMatch THEN Null
            ELSE LET parsed == ToNumber(match)
                 IN  IF parsed = NaN THEN Null
                     ELSE IntVal(MathFloor(parsed))
    ELSE Null

\* weekly-report.gs normalizeAge
normalizeAge_gs(value) ==
    IF value.t \in {"null", "undefined"} THEN Null
    ELSE IF value.t = "number" THEN IntVal(MathFloor(value))
    ELSE IF value.t = "string" THEN
        LET trimmed == Trim(value.s)
            match == matchNumberGs(trimmed)
        IN  IF trimmed = <<>> THEN Null
            ELSE IF match = NoMatch THEN Null
            ELSE LET parsed == ToNumber(match)
                 IN  IF parsed = NaN THEN Null
                     ELSE IntVal(MathFloor(parsed))
    ELSE Null

-----------------------------------------------------------------------------
(* SpecAge: one raw cell value, parsed by each of the two normalizeAge.    *)

MaxStrLen == 3

AgeAlphabet == {"1", "2", "6", "9", ".", " ", "bs", "d", "se"}

StringsUpTo(A, n) == UNION {[1..m -> A] : m \in 0..n}

ExampleStrings ==
    { <<"1", "2", "se">>,                     \* "12<se>"
      <<"6", ".", "9">>,                      \* "6.9"
      <<"a", "b", "c">>,                      \* "abc"
      <<" ", "1", "2", "0", " ">>,            \* " 120 "
      <<"a", "7", ".", "5", ".", "3">>,       \* "a7.5.3"
      <<"3", "se", " ", "1", "1", "9">>,      \* "3<se> 119"
      <<"bs", "d", "bs", ".", "bs", "d">>,    \* the text of the pattern itself
      <<"-", "5">> }                          \* "-5"

StringPool == StringsUpTo(AgeAlphabet, MaxStrLen) \cup ExampleStrings

NumberPool ==
    { NumberCell(n, 10) : n \in {-10, -1, 0, 5, 69, 1200, 1205, 1210} }

CellPool ==
    NumberPool
    \cup {NonFiniteCell, NullCell, UndefinedCell, BooleanCell, ObjectCell}
    \cup {StringCell(s) : s \in StringPool}

AgeIdle == cell = NullCell /\ appAge = Unset /\ gsAge = Unset

SheetIdle == workbook = <<>> /\ appBest = Unset /\ gsBest = Unset

CountIdle ==
    /\ visitAges = <<>> /\ feverAges = <<>>
    /\ visitCounts = Unset /\ feverCounts = Unset
    /\ uploadGroups = Unset /\ uploadView = Unset /\ gsWeek = Unset

WeekIdle == dateStrings = <<>> /\ weekCheck = Unset

\* No upload is under way: useState({ files: [], ages: [], warnings: [] })
EmptyUpload == [files |-> <<>>, ages |-> <<>>, warnings |-> <<>>, weekCheck |-> Undefined]

UploadIdle ==
    /\ fileList = <<>> /\ uploadType = "visit" /\ parsedFiles = <<>>
    /\ uploadPc = "returned"
    /\ visitUpload = EmptyUpload /\ feverUpload = EmptyUpload

\* The trigger has not fired.
JobIdle ==
    /\ now = [k |-> "date", days |-> 0] /\ driveFolder = {}
    /\ reportSheet = [format |-> "plain", rows |-> <<>>]
    /\ jobPc = "idle" /\ jobRange = Unset /\ jobRecord = Unset
    /\ runsLeft = 0 /\ persistedWeeks = {}

HandlerIdle ==
    /\ env = Unset /\ upstream = Unset /\ handlerPc = "done"
    /\ responses = <<>> /\ escaped = FALSE

LoadIdle ==
    /\ isMounted = FALSE /\ fetchResult = Unset /\ loadPc = "idle"
    /\ reports = <<>> /\ selectedWeek = <<>> /\ loadError = ""
    /\ isLoading = FALSE

CellIdle == missingCell = NullCell /\ parsedDays = Unset

CallsIdle == calls = <<>>

RestIdle == JobIdle /\ HandlerIdle /\ LoadIdle /\ CellIdle /\ CallsIdle

UploadSideIdle == AgeIdle /\ SheetIdle /\ CountIdle /\ WeekIdle /\ UploadIdle

NotJobIdle == UploadSideIdle /\ HandlerIdle /\ LoadIdle /\ CellIdle /\ CallsIdle
NotHandlerIdle == UploadSideIdle /\ JobIdle /\ LoadIdle /\ CellIdle /\ CallsIdle
NotLoadIdle == UploadSideIdle /\ JobIdle /\ HandlerIdle /\ CellIdle /\ CallsIdle
NotCellIdle == UploadSideIdle /\ JobIdle /\ HandlerIdle /\ LoadIdle /\ CallsIdle

InitAge ==
    /\ cell \in CellPool
    /\ appAge = Unset
    /\ gsAge = Unset
    /\ SheetIdle
    /\ CountIdle
    /\ WeekIdle
    /\ UploadIdle
    /\ RestIdle

\* The interactive upload path parses the cell.
NormalizeApp ==
    /\ appAge = Unset
    /\ appAge' = normalizeAge_App(cell)
    /\ UNCHANGED <<cell, gsAge, sheetVars, countVars, weekVars, uploadVars, restVars>>

\* The scheduled job parses the cell.
NormalizeGs ==
    /\ gsAge = Unset
    /\ gsAge' = normalizeAge_gs(cell)
    /\ UNCHANGED <<cell, appAge, sheetVars, countVars, weekVars, uploadVars, restVars>>

NextAge == NormalizeApp \/ NormalizeGs

SpecAge == InitAge /\ [][NextAge]_vars

\* The floor of the first contiguous decimal number of a string: the value
\* of the first maximal run of digits of the trimmed string, if any.
FirstNumberFloor(s) ==
    LET t == Trim(s)
        starts == {i \in 1..Len(t) : IsDigit(t[i])}
    IN  IF starts = {} THEN Null
        ELSE LET i == Min(starts)
                 ends == {j \in i..Len(t) : \A k \in i..j : IsDigit(t[k])}
             IN  IntVal(DecimalValue(SubSeq(t, i, Max(ends))))

\* C2: for a string cell, normalizeAge returns null when the trimmed string
\* is empty or holds no decimal number, and otherwise the floor of the first
\* contiguous decimal number; in the upload path and in the scheduled job.
C2_StringAgeBoth ==
    cell.t = "string" =>
        /\ appAge # Unset => appAge = FirstNumberFloor(cell.s)
        /\ gsAge # Unset => gsAge = FirstNumberFloor(cell.s)

\* The scheduled job's half of C2 (holds).
C2_StringAgeGs ==
    (cell.t = "string" /\ gsAge # Unset) => gsAge = FirstNumberFloor(cell.s)

\* The upload path returns null for every string cell.
C2_AppStringAlwaysNull ==
    (cell.t = "string" /\ appAge # Unset) => appAge = Null

C2_Witness ==
    /\ cell = StringCell(<<"1", "2", "se">>)
    /\ gsAge = IntVal(12)
    /\ appAge = Null

-----------------------------------------------------------------------------
(* ColumnSelector                                                          *)

\* A selector that clamps an out-of-range age to 0 or 120 instead of
\* dropping it.
RECURSIVE agesOfRows_Clamping(_)
agesOfRows_Clamping(rows) ==
    IF rows = <<>> THEN <<>>
    ELSE LET age == normalizeAge_App(Head(rows))
         IN  (IF age = Null THEN <<>>
              ELSE IF age.v < 0 THEN <<0>>
              ELSE IF age.v > 120 THEN <<120>>
              ELSE <<age.v>>)
                 \o agesOfRows_Clamping(Tail(rows))

\* App.jsx findAgesInWorkbook, rows.forEach: the column-D cells of the rows
\* of one sheet that normalize to an age in [0,120], in row order.
RECURSIVE agesOfRows_App(_)
agesOfRows_App(rows) ==
    IF rows = <<>> THEN <<>>
    ELSE LET age == normalizeAge_App(Head(rows))
         IN  (IF age # Null /\ age.v >= 0 /\ age.v <= 120 THEN <<age.v>> ELSE <<>>)
                 \o agesOfRows_App(Tail(rows))

\* weekly-report.gs extractAgesFromExcel, values.forEach
RECURSIVE agesOfRows_gs(_)
agesOfRows_gs(rows) ==
    IF rows = <<>> THEN <<>>
    ELSE LET age == normalizeAge_gs(Head(rows))
         IN  (IF age # Null /\ age.v >= 0 /\ age.v <= 120 THEN <<age.v>> ELSE <<>>)
                 \o agesOfRows_gs(Tail(rows))

\* A scan in which a later sheet wins a tie (>= for >).
RECURSIVE scanSheets_LastWins(_, _, _)
scanSheets_LastWins(wb, i, best) ==
    IF i > Len(wb) THEN best
    ELSE LET ages == agesOfRows_App(wb[i].rows)
         IN  scanSheets_LastWins(wb, i + 1,
                 IF Len(ages) >= best.count
                 THEN [ages |-> ages, sheetName |-> wb[i].name, count |-> Len(ages)]
                 ELSE best)

\* App.jsx findAgesInWorkbook, workbook.SheetNames.forEach from sheet i on
RECURSIVE scanSheets_App(_, _, _)
scanSheets_App(wb, i, best) ==
    IF i > Len(wb) THEN best
    ELSE LET ages == agesOfRows_App(wb[i].rows)
         IN  scanSheets_App(wb, i + 1,
                 IF Len(ages) > best.count
                 THEN [ages |-> ages, sheetName |-> wb[i].name, count |-> Len(ages)]
                 ELSE best)

findAgesInWorkbook(wb) ==
    scanSheets_App(wb, 1, [ages |-> <<>>, sheetName |-> "", count |-> 0])

\* weekly-report.gs extractAgesFromExcel, sheets.forEach from sheet i on
RECURSIVE scanSheets_gs(_, _, _)
scanSheets_gs(wb, i, best) ==
    IF i > Len(wb) THEN best
    ELSE LET ages == agesOfRows_gs(wb[i].rows)
         IN  scanSheets_gs(wb, i + 1,
                 IF Len(ages) > Len(best.ages)
                 THEN [ages |-> ages, sheetName |-> wb[i].name]
                 ELSE best)

\* The value of best when extractAgesFromExcel returns best.ages.
extractAgesFromExcel(wb) ==
    scanSheets_gs(wb, 1, [ages |-> <<>>, sheetName |-> ""])

-----------------------------------------------------------------------------
(* SpecSheet: one document, scanned by each of the two column selectors.   *)

MaxRows == 2

SheetNames == {"A", "B"}

SheetCells ==
    { NumberCell(-1, 1), NumberCell(0, 1), NumberCell(1205, 10),
      NumberCell(1210, 10), NullCell, StringCell(<<"1", "2", "se">>) }

RowLists == StringsUpTo(SheetCells, MaxRows)

Sheet(n, rows) == [name |-> n, rows |-> rows]

\* Five valid ages, two valid ages among noise, and one cell of every kind.
FiveValid ==
    << NumberCell(0, 1), NumberCell(3, 1), NumberCell(10, 1),
       NumberCell(20, 1), NumberCell(70, 1) >>
TwoValid ==
    << NumberCell(40, 1), NumberCell(121, 1), NullCell, NumberCell(69, 10) >>
EveryKind ==
    << NumberCell(-1, 10), UndefinedCell, BooleanCell, ObjectCell,
       StringCell(<<>>), StringCell(<<" ">>), NonFiniteCell, NumberCell(1209, 10),
       StringCell(<<"1", "2", "1">>), NumberCell(-1, 1), NumberCell(121, 1) >>

ExampleWorkbooks ==
    { << Sheet("A", TwoValid), Sheet("B", FiveValid) >>,
      << Sheet("B", FiveValid), Sheet("A", TwoValid) >>,
      << Sheet("A", EveryKind) >>,
      << Sheet("A", EveryKind), Sheet("B", <<NullCell>>) >>,
      << Sheet("A", <<NullCell>>), Sheet("B", TwoValid),
         Sheet("C", <<NumberCell(1, 1), NumberCell(2, 1)>>) >> }

WorkbookPool ==
    { <<Sheet(n, r)>> : n \in SheetNames, r \in RowLists }
    \cup { <<Sheet(n[1], r1), Sheet(n[2], r2)>> :
             n \in {<<"A", "B">>, <<"B", "A">>}, r1 \in RowLists, r2 \in RowLists }
    \cup ExampleWorkbooks

InitSheet ==
    /\ workbook \in WorkbookPool
    /\ appBest = Unset
    /\ gsBest = Unset
    /\ AgeIdle
    /\ CountIdle
    /\ WeekIdle
    /\ UploadIdle
    /\ RestIdle

\* The interactive upload path scans the document.
FindAgesInWorkbook ==
    /\ appBest = Unset
    /\ appBest' = findAgesInWorkbook(workbook)
    /\ UNCHANGED <<workbook, gsBest, ageVars, countVars, weekVars, uploadVars, restVars>>

\* The scheduled job scans the document.
ExtractAgesFromExcel ==
    /\ gsBest = Unset
    /\ gsBest' = extractAgesFromExcel(workbook)
    /\ UNCHANGED <<workbook, appBest, ageVars, countVars, weekVars, uploadVars, restVars>>

NextSheet == FindAgesInWorkbook \/ ExtractAgesFromExcel

SpecSheet == InitSheet /\ [][NextSheet]_vars

-----------------------------------------------------------------------------
(* AgeBandClassifier and DatasetCombiner                                   *)

\* Bands that leave out the age 19 (the third band starts at 20).
AGE_GROUPS_Gap ==
    << [id |-> "0-6", label |-> "0-6se", range |-> <<0, 6>>,
        children |-> << [id |-> "0", label |-> "0se", range |-> <<0, 0>>],
                        [id |-> "1-6", label |-> "1-6se", range |-> <<1, 6>>] >>],
       [id |-> "7-18", label |-> "7-18se", range |-> <<7, 18>>,
        children |-> << [id |-> "7-12", label |-> "7-12se", range |-> <<7, 12>>],
                        [id |-> "13-18", label |-> "13-18se", range |-> <<13, 18>>] >>],
       [id |-> "19-49", label |-> "19-49se", range |-> <<20, 49>>],
       [id |-> "50-64", label |-> "50-64se", range |-> <<50, 64>>],
       [id |-> "65+", label |-> "65se isang", range |-> <<65, 120>>] >>

\* AGE_GROUPS, the same in App.jsx and weekly-report.gs.  The last three
\* bands have no children field.
AGE_GROUPS ==
    << [id |-> "0-6", label |-> "0-6se", range |-> <<0, 6>>,
        children |-> << [id |-> "0", label |-> "0se", range |-> <<0, 0>>],
                        [id |-> "1-6", label |-> "1-6se", range |-> <<1, 6>>] >>],
       [id |-> "7-18", label |-> "7-18se", range |-> <<7, 18>>,
        children |-> << [id |-> "7-12", label |-> "7-12se", range |-> <<7, 12>>],
                        [id |-> "13-18", label |-> "13-18se", range |-> <<13, 18>>] >>],
       [id |-> "19-49", label |-> "19-49se", range |-> <<19, 49>>],
       [id |-> "50-64", label |-> "50-64se", range |-> <<50, 64>>],
       [id |-> "65+", label |-> "65se isang", range |-> <<65, 120>>] >>

\* group.children || []
childrenOrEmpty(group) ==
    IF "children" \in DOMAIN group THEN group.children ELSE <<>>

\* buildCounts: the groups with every count 0
zeroGroups ==
    [g \in 1..Len(AGE_GROUPS) |->
        [id |-> AGE_GROUPS[g].id, label |-> AGE_GROUPS[g].label,
         range |-> AGE_GROUPS[g].range, count |-> 0,
         children |->
            [c \in 1..Len(childrenOrEmpty(AGE_GROUPS[g])) |->
                [id |-> childrenOrEmpty(AGE_GROUPS[g])[c].id,
                 label |-> childrenOrEmpty(AGE_GROUPS[g])[c].label,
                 range |-> childrenOrEmpty(AGE_GROUPS[g])[c].range,
                 count |-> 0]]]]

\* A band test that leaves out the upper end of a range (< for <=).
inRange_Exclusive(age, range) == age >= range[1] /\ age < range[2]

\* age >= range[0] && age <= range[1]
inRange(age, range) == age >= range[1] /\ age <= range[2]

\* buildCounts, the body of ages.forEach: one age counted into the groups
countAge(groups, age) ==
    [g \in 1..Len(groups) |->
        IF inRange(age, groups[g].range)
        THEN [groups[g] EXCEPT
                !.count = @ + 1,
                !.children =
                    [c \in 1..Len(groups[g].children) |->
                        IF inRange(age, groups[g].children[c].range)
                        THEN [groups[g].children[c] EXCEPT !.count = @ + 1]
                        ELSE groups[g].children[c]]]
        ELSE groups[g]]

RECURSIVE countAges(_, _)
countAges(groups, ages) ==
    IF ages = <<>> THEN groups
    ELSE countAges(countAge(groups, Head(ages)), Tail(ages))

\* buildCounts of App.jsx and of weekly-report.gs: both build the same
\* nodes {id, label, range, count, children} and run the same loops.
buildCounts(ages) == countAges(zeroGroups, ages)

\* Array.prototype.find on item.id: the first node with the id, or NoNode.
NoNode == [k |-> "undefined"]
findById(nodes, id) ==
    LET hits == {i \in 1..Len(nodes) : nodes[i].id = id}
    IN  IF hits = {} THEN NoNode ELSE nodes[Min(hits)]

\* node.count || 0 for a node that may lack a count
countOrZero(node) ==
    IF "count" \in DOMAIN node THEN node.count ELSE 0

\* feverGroup.children?.find(...) || {}
findChild(feverGroup, id) ==
    IF "children" \in DOMAIN feverGroup
    THEN LET hit == findById(feverGroup.children, id)
         IN  IF hit = NoNode THEN [k |-> "empty object"] ELSE hit
    ELSE [k |-> "empty object"]

\* A combiner that pairs the children by position, not by id.
combineCounts_ByPosition(visit, fever) ==
    [g \in 1..Len(visit) |->
        LET group == visit[g]
            feverGroup == IF g <= Len(fever) THEN fever[g] ELSE [count |-> 0, children |-> <<>>]
        IN  [id |-> group.id, label |-> group.label, range |-> group.range,
             count |-> group.count,
             totalCount |-> group.count,
             feverCount |-> countOrZero(feverGroup),
             children |->
                [c \in 1..Len(group.children) |->
                    LET child == group.children[c]
                        feverChild == findChild(feverGroup, child.id)
                    IN  [id |-> child.id, label |-> child.label, range |-> child.range,
                         count |-> child.count,
                         totalCount |-> child.count,
                         feverCount |-> countOrZero(feverChild)]]]]

\* App.jsx combineCounts
combineCounts(visit, fever) ==
    [g \in 1..Len(visit) |->
        LET group == visit[g]
            found == findById(fever, group.id)
            feverGroup == IF found = NoNode THEN [count |-> 0, children |-> <<>>] ELSE found
        IN  [id |-> group.id, label |-> group.label, range |-> group.range,
             count |-> group.count,
             totalCount |-> group.count,
             feverCount |-> countOrZero(feverGroup),
             children |->
                [c \in 1..Len(group.children) |->
                    LET child == group.children[c]
                        feverChild == findChild(feverGroup, child.id)
                    IN  [id |-> child.id, label |-> child.label, range |-> child.range,
                         count |-> child.count,
                         totalCount |-> child.count,
                         feverCount |-> countOrZero(feverChild)]]]]

\* weekly-report.gs combineCounts: the same pairing, nodes without range
\* and count.
combineCounts_gs(visit, fever) ==
    [g \in 1..Len(visit) |->
        LET group == visit[g]
            found == findById(fever, group.id)
            feverGroup == IF found = NoNode THEN [count |-> 0, children |-> <<>>] ELSE found
        IN  [id |-> group.id, label |-> group.label,
             totalCount |-> group.count,
             feverCount |-> countOrZero(feverGroup),
             children |->
                [c \in 1..Len(group.children) |->
                    LET child == group.children[c]
                        feverChild == findChild(feverGroup, child.id)
                    IN  [id |-> child.id, label |-> child.label,
                         totalCount |-> child.count,
                         feverCount |-> countOrZero(feverChild)]]]]

\* A ratio computed without the guard on the denominator: 0/0 is NaN and
\* n/0 is Infinity.
ratioOf_Unguarded(feverCount, totalCount) ==
    IF totalCount # 0 THEN Num(feverCount * 100, totalCount)
    ELSE IF feverCount = 0 THEN NaN ELSE [k |-> "infinity"]

\* totalCount ? (feverCount / totalCount) * 100 : 0, as an exact rational
ratioOf(feverCount, totalCount) ==
    IF totalCount # 0 THEN Num(feverCount * 100, totalCount) ELSE Num(0, 1)

\* formatPercent: value.toFixed(1), as a number of tenths (nearest tenth,
\* the larger one on a tie), for a value >= 0
formatPercent(value) == (value.num * 20 + value.den) \div (2 * value.den)

\* App.jsx, upload mode: uploadOverallRatio, hasData, chartData and the rows
\* of the report table.
renderUpload(groups, totalVisit, totalFever) ==
    LET overallRatio == ratioOf(totalFever, totalVisit)
        hasData == totalVisit > 0 \/ totalFever > 0
    IN  [ totalVisit |-> totalVisit,
          totalFever |-> totalFever,
          overallRatio |-> overallRatio,
          overallText |-> formatPercent(overallRatio),
          hasData |-> hasData,
          chartData |->
            [g \in 1..Len(groups) |->
                [label |-> groups[g].label,
                 ratio |-> ratioOf(groups[g].feverCount, groups[g].totalCount),
                 feverCount |-> groups[g].feverCount,
                 totalCount |-> groups[g].totalCount]],
          table |->
            IF hasData
            THEN [g \in 1..Len(groups) |->
                    [id |-> groups[g].id,
                     totalCount |-> groups[g].totalCount,
                     feverCount |-> groups[g].feverCount,
                     percent |->
                        IF groups[g].totalCount # 0
                        THEN formatPercent(Num(groups[g].feverCount * 100, groups[g].totalCount))
                        ELSE 0,
                     children |->
                        [c \in 1..Len(groups[g].children) |->
                            LET child == groups[g].children[c]
                            IN  [id |-> child.id,
                                 totalCount |-> child.totalCount,
                                 feverCount |-> child.feverCount,
                                 percent |->
                                    IF child.totalCount # 0
                                    THEN formatPercent(Num(child.feverCount * 100, child.totalCount))
                                    ELSE 0]]]]
            ELSE <<>> ]

\* weekly-report.gs aggregateWeek, from the two age lists to the record
\* (the counts, the totals and the overall ratio).
aggregateCounts(vAges, fAges) ==
    LET vCounts == buildCounts(vAges)
        fCounts == buildCounts(fAges)
        totalVisit == Len(vAges)
        totalFever == Len(fAges)
    IN  [ totalVisit |-> totalVisit,
          totalFever |-> totalFever,
          overallRatio |-> ratioOf(totalFever, totalVisit),
          combinedGroups |-> combineCounts_gs(vCounts, fCounts) ]

-----------------------------------------------------------------------------
(* SpecCounts: two age lists, classified, combined and rendered in upload  *)
(* mode, or aggregated by the scheduled job.                               *)

MaxAges == 2

VisitAgeSet == {0, 1, 6, 7, 12, 13, 18, 19, 49, 50, 64, 65, 120}
FeverAgeSet == {3, 70}

VisitLists ==
    StringsUpTo(VisitAgeSet, MaxAges)
    \cup { <<a>> : a \in 0..120 }
    \cup { <<0, 3, 10, 20, 70>>, <<5, 5, 5>> }

FeverLists ==
    StringsUpTo(FeverAgeSet, MaxAges)
    \cup { <<3, 70>>, <<0>>, <<13, 13, 13>>, <<70, 3, 3, 3>> }

\* Fever trees that buildCounts did not build: a tree missing bands, nodes
\* without a children list, without a count, a child missing, an id twice,
\* the bands in another order.
GivenFeverTrees ==
    { <<>>,
      << [id |-> "65+", count |-> 4] >>,
      << [id |-> "0-6", count |-> 2] >>,
      << [id |-> "0-6", count |-> 3, children |-> << [id |-> "1-6", count |-> 3] >>] >>,
      << [id |-> "7-18", children |-> << [id |-> "13-18", count |-> 1] >>] >>,
      << [id |-> "65+", count |-> 1, children |-> <<>>],
         [id |-> "65+", count |-> 9, children |-> <<>>] >>,
      << [id |-> "65+", count |-> 2, children |-> <<>>],
         [id |-> "7-18", count |-> 5,
          children |-> << [id |-> "13-18", count |-> 1], [id |-> "7-12", count |-> 4] >>],
         [id |-> "90+", count |-> 7, children |-> <<>>] >> }

InitCounts ==
    /\ visitAges \in VisitLists
    /\ \/ feverAges \in FeverLists /\ feverCounts = Unset
       \/ feverAges = <<>> /\ feverCounts \in {Some(t) : t \in GivenFeverTrees}
    /\ visitCounts = Unset
    /\ uploadGroups = Unset
    /\ uploadView = Unset
    /\ gsWeek = Unset
    /\ AgeIdle
    /\ SheetIdle
    /\ WeekIdle
    /\ UploadIdle
    /\ RestIdle

\* useMemo(() => buildCounts(visitUpload.ages))
BuildVisitCounts ==
    /\ gsWeek = Unset
    /\ visitCounts = Unset
    /\ visitCounts' = Some(buildCounts(visitAges))
    /\ UNCHANGED <<visitAges, feverAges, feverCounts, uploadGroups, uploadView, gsWeek>>
    /\ UNCHANGED <<ageVars, sheetVars, weekVars, uploadVars, restVars>>

\* useMemo(() => buildCounts(feverUpload.ages))
BuildFeverCounts ==
    /\ visitCounts # Unset
    /\ feverCounts = Unset
    /\ feverCounts' = Some(buildCounts(feverAges))
    /\ UNCHANGED <<visitAges, feverAges, visitCounts, uploadGroups, uploadView, gsWeek>>
    /\ UNCHANGED <<ageVars, sheetVars, weekVars, uploadVars, restVars>>

\* useMemo(() => combineCounts(visitCounts, feverCounts))
CombineCounts ==
    /\ visitCounts # Unset
    /\ feverCounts # Unset
    /\ uploadGroups = Unset
    /\ uploadGroups' = Some(combineCounts(visitCounts.v, feverCounts.v))
    /\ UNCHANGED <<visitAges, feverAges, visitCounts, feverCounts, uploadView, gsWeek>>
    /\ UNCHANGED <<ageVars, sheetVars, weekVars, uploadVars, restVars>>

\* App renders the upload-mode report.
RenderUpload ==
    /\ uploadGroups # Unset
    /\ uploadView = Unset
    /\ uploadView' = renderUpload(uploadGroups.v, Len(visitAges), Len(feverAges))
    /\ UNCHANGED <<visitAges, feverAges, visitCounts, feverCounts, uploadGroups, gsWeek>>
    /\ UNCHANGED <<ageVars, sheetVars, weekVars, uploadVars, restVars>>

\* The scheduled job aggregates the two age lists of a week.
AggregateCounts ==
    /\ visitCounts = Unset
    /\ feverCounts = Unset
    /\ gsWeek = Unset
    /\ gsWeek' = aggregateCounts(visitAges, feverAges)
    /\ UNCHANGED <<visitAges, feverAges, visitCounts, feverCounts, uploadGroups, uploadView>>
    /\ UNCHANGED <<ageVars, sheetVars, weekVars, uploadVars, restVars>>

NextCounts ==
    \/ BuildVisitCounts
    \/ BuildFeverCounts
    \/ CombineCounts
    \/ RenderUpload
    \/ AggregateCounts

SpecCounts == InitCounts /\ [][NextCounts]_vars

RECURSIVE SumCounts(_)
SumCounts(nodes) ==
    IF nodes = <<>> THEN 0 ELSE Head(nodes).count + SumCounts(Tail(nodes))

BandIds(nodes) == [g \in 1..Len(nodes) |-> nodes[g].id]

\* The number of ages of the list that lie in the closed range.
AgesWithin(ages, range) ==
    Cardinality({i \in 1..Len(ages) : range[1] <= ages[i] /\ ages[i] <= range[2]})

\* C1: for a list of integer ages in [0,120] buildCounts counts each age in
\* exactly one top-level band and, in a band with children, in exactly one
\* child: the top-level counts sum to the length of the list, a parent's
\* count is the sum of its children's, and the bands come in declaration
\* order 0-6, 7-18, 19-49, 50-64, 65+.
C1_EachAgeInOneBand ==
    visitCounts # Unset =>
        LET T == visitCounts.v
        IN  /\ BandIds(T) = <<"0-6", "7-18", "19-49", "50-64", "65+">>
            /\ SumCounts(T) = Len(visitAges)
            /\ \A g \in 1..Len(T) :
                /\ T[g].count = AgesWithin(visitAges, T[g].range)
                /\ T[g].children # <<>> => T[g].count = SumCounts(T[g].children)
                /\ \A c \in 1..Len(T[g].children) :
                       T[g].children[c].count = AgesWithin(visitAges, T[g].children[c].range)
            /\ \A i \in 1..Len(visitAges) :
                /\ Cardinality({g \in 1..Len(T) : AgesWithin(<<visitAges[i]>>, T[g].range) = 1}) = 1
                /\ \A g \in 1..Len(T) :
                    (T[g].children # <<>> /\ AgesWithin(<<visitAges[i]>>, T[g].range) = 1) =>
                        Cardinality({c \in 1..Len(T[g].children) :
                            AgesWithin(<<visitAges[i]>>, T[g].children[c].range) = 1}) = 1

C1_Witness ==
    /\ visitAges = <<0, 3, 10, 20, 70>>
    /\ visitCounts # Unset
    /\ [g \in 1..5 |-> visitCounts.v[g].count] = <<2, 1, 1, 0, 1>>
    /\ [c \in 1..2 |-> visitCounts.v[1].children[c].count] = <<1, 1>>

\* The count of the first node of the list with the id, 0 when there is no
\* such node or it has no count.
CountById(nodes, id) ==
    IF \E i \in 1..Len(nodes) : nodes[i].id = id
    THEN LET n == nodes[Min({i \in 1..Len(nodes) : nodes[i].id = id})]
         IN  IF "count" \in DOMAIN n THEN n.count ELSE 0
    ELSE 0

\* The children of the first node of the list with the id, none when there
\* is no such node or it has no children list.
ChildrenById(nodes, id) ==
    IF \E i \in 1..Len(nodes) : nodes[i].id = id
    THEN LET n == nodes[Min({i \in 1..Len(nodes) : nodes[i].id = id})]
         IN  IF "children" \in DOMAIN n THEN n.children ELSE <<>>
    ELSE <<>>

\* C5: combineCounts(T, F) returns one node per node of T, with T's band
\* ids in T's order at both levels, totalCount = T's count and feverCount =
\* the count of the node with the same id in F, 0 when F has none; with the
\* empty F every feverCount is 0.
C5_CombineFollowsTotalTree ==
    uploadGroups # Unset =>
        LET T == visitCounts.v
            F == feverCounts.v
            R == uploadGroups.v
        IN  /\ BandIds(R) = BandIds(T)
            /\ \A g \in 1..Len(T) :
                /\ R[g].totalCount = T[g].count
                /\ R[g].feverCount = CountById(F, T[g].id)
                /\ BandIds(R[g].children) = BandIds(T[g].children)
                /\ \A c \in 1..Len(T[g].children) :
                    /\ R[g].children[c].totalCount = T[g].children[c].count
                    /\ R[g].children[c].feverCount =
                           CountById(ChildrenById(F, T[g].id), T[g].children[c].id)
                /\ F = <<>> =>
                    /\ R[g].feverCount = 0
                    /\ \A c \in 1..Len(R[g].children) : R[g].children[c].feverCount = 0

\* A fever tree whose only node has no children list, combined.
C5_Witness ==
    /\ visitAges = <<5, 5, 5>>
    /\ feverCounts = Some(<< [id |-> "0-6", count |-> 2] >>)
    /\ uploadGroups # Unset
    /\ uploadGroups.v[1].totalCount = 3
    /\ uploadGroups.v[1].feverCount = 2
    /\ uploadGroups.v[1].children[2].totalCount = 3
    /\ uploadGroups.v[1].children[2].feverCount = 0

\* The empty fever tree, combined.
C5_EmptyWitness ==
    /\ visitAges = <<0, 3, 10, 20, 70>>
    /\ feverCounts = Some(<<>>)
    /\ uploadGroups # Unset
    /\ uploadGroups.v[1].totalCount = 2

\* r is the finite number feverCount/totalCount*100, or 0 when totalCount = 0.
RatioIs(r, feverCount, totalCount) ==
    /\ r.k = "num"
    /\ IF totalCount > 0
       THEN r.num * totalCount = feverCount * 100 * r.den
       ELSE r.num = 0

\* p tenths is feverCount/totalCount*100 to the nearest tenth, or 0.
PercentIs(p, feverCount, totalCount) ==
    IF totalCount > 0
    THEN LET d == p * totalCount - feverCount * 1000
         IN  2 * d <= totalCount /\ -2 * d <= totalCount
    ELSE p = 0

IsNumber(r, n) == r.k = "num" /\ r.num = n * r.den

\* C6: every ratio (per band, per child band, overall; rendered in upload
\* mode or stored by the weekly job) is feverCount/totalCount*100 when
\* totalCount > 0 and 0 when totalCount = 0, never NaN or Infinity.  For total
\* ages [0,3,10,20,70] and fever ages [3,70]: band 0-6 has 2, 1, ratio 50,
\* band 65+ has 1, 1, ratio 100, and the overall ratio is 40.
C6_RatiosGuarded ==
    /\ uploadView # Unset =>
        LET V == uploadView
            R == uploadGroups.v
        IN  /\ RatioIs(V.overallRatio, Len(feverAges), Len(visitAges))
            /\ PercentIs(V.overallText, Len(feverAges), Len(visitAges))
            /\ \A g \in 1..Len(R) :
                /\ V.chartData[g].totalCount = R[g].totalCount
                /\ V.chartData[g].feverCount = R[g].feverCount
                /\ RatioIs(V.chartData[g].ratio, R[g].feverCount, R[g].totalCount)
            /\ V.hasData =>
                \A g \in 1..Len(R) :
                    /\ PercentIs(V.table[g].percent, R[g].feverCount, R[g].totalCount)
                    /\ \A c \in 1..Len(R[g].children) :
                        PercentIs(V.table[g].children[c].percent,
                                  R[g].children[c].feverCount, R[g].children[c].totalCount)
            /\ (visitAges = <<0, 3, 10, 20, 70>> /\ feverAges = <<3, 70>>
                    /\ feverCounts = Some(buildCounts(feverAges))) =>
                /\ V.chartData[1].totalCount = 2 /\ V.chartData[1].feverCount = 1
                /\ IsNumber(V.chartData[1].ratio, 50) /\ V.table[1].percent = 500
                /\ V.chartData[5].totalCount = 1 /\ V.chartData[5].feverCount = 1
                /\ IsNumber(V.chartData[5].ratio, 100) /\ V.table[5].percent = 1000
                /\ IsNumber(V.overallRatio, 40) /\ V.overallText = 400
    /\ gsWeek # Unset =>
        /\ gsWeek.totalVisit = Len(visitAges)
        /\ gsWeek.totalFever = Len(feverAges)
        /\ RatioIs(gsWeek.overallRatio, gsWeek.totalFever, gsWeek.totalVisit)
        /\ (visitAges = <<0, 3, 10, 20, 70>> /\ feverAges = <<3, 70>>) =>
            /\ IsNumber(gsWeek.overallRatio, 40)
            /\ gsWeek.combinedGroups[1].totalCount = 2
            /\ gsWeek.combinedGroups[1].feverCount = 1
            /\ gsWeek.combinedGroups[5].totalCount = 1
            /\ gsWeek.combinedGroups[5].feverCount = 1

C6_Witness ==
    /\ visitAges = <<0, 3, 10, 20, 70>>
    /\ feverAges = <<3, 70>>
    /\ uploadView # Unset
    /\ uploadView.overallText = 400
    /\ uploadView.table[5].percent = 1000

\* A band without visits but with fever cases is rendered with ratio 0.
C6_ZeroTotalWitness ==
    /\ visitAges = <<0>>
    /\ feverAges = <<70, 3, 3, 3>>
    /\ uploadView # Unset
    /\ uploadView.chartData[5].totalCount = 0
    /\ uploadView.chartData[5].feverCount = 1
    /\ uploadView.chartData[5].ratio = Num(0, 1)
    /\ uploadView.table[1].percent = 3000

\* The number of rows of a sheet whose cell normalizes to the age a.
RowsWithAge(rows, a, norm(_)) ==
    Cardinality({i \in 1..Len(rows) : norm(rows[i]) = IntVal(a)})

Occurrences(seq, a) == Cardinality({i \in 1..Len(seq) : seq[i] = a})

\* The rows of the sheet of the workbook named n.
RowsOfSheet(wb, n) ==
    LET i == CHOOSE k \in 1..Len(wb) : wb[k].name = n
    IN  wb[i].rows

\* The returned ages are in [0,120] and are exactly the in-range normalized
\* cells of the selected sheet: each age a of [0,120] occurs as often as the
\* sheet has cells that normalize to a, and there is nothing else in the list.
DroppedNotClamped(wb, best, norm(_)) ==
    /\ \A k \in 1..Len(best.ages) : best.ages[k] \in 0..120
    /\ IF best.sheetName = ""
       THEN best.ages = <<>>
       ELSE LET rows == RowsOfSheet(wb, best.sheetName)
                normal == {norm(rows[i]) : i \in 1..Len(rows)} \ {Null}
                seen == {best.ages[k] : k \in 1..Len(best.ages)}
                          \cup {n.v : n \in {m \in normal : m.v \in 0..120}}
            IN  \A a \in seen : Occurrences(best.ages, a) = RowsWithAge(rows, a, norm)

\* C3: every age the column selector returns is an integer in [0,120]; a cell
\* whose normalized value is below 0 or above 120, or null, is dropped from
\* the list and never clamped to 0 or 120.
C3_AgesInRangeDropped ==
    /\ appBest # Unset => DroppedNotClamped(workbook, appBest, normalizeAge_App)
    /\ gsBest # Unset => DroppedNotClamped(workbook, gsBest, normalizeAge_gs)

C3_Witness ==
    /\ workbook = << Sheet("A", EveryKind) >>
    /\ appBest # Unset /\ appBest.ages = <<120>>
    /\ gsBest # Unset /\ gsBest.ages = <<120>>

\* Sheet i has the longest valid-age list and is the first sheet that has.
FirstLongest(wb, i, valid(_)) ==
    /\ \A j \in 1..Len(wb) : Len(valid(wb[j].rows)) <= Len(valid(wb[i].rows))
    /\ \A j \in 1..(i - 1) : Len(valid(wb[j].rows)) < Len(valid(wb[i].rows))

SelectsFirstLongest(wb, best, valid(_)) ==
    \E i \in 1..Len(wb) :
        /\ FirstLongest(wb, i, valid)
        /\ best.sheetName = wb[i].name
        /\ best.ages = valid(wb[i].rows)

SomeValidAge(wb, valid(_)) == \E i \in 1..Len(wb) : valid(wb[i].rows) # <<>>

TwoAndFive ==
    { << Sheet("A", TwoValid), Sheet("B", FiveValid) >>,
      << Sheet("B", FiveValid), Sheet("A", TwoValid) >> }

\* C4 as stated: the column selector returns the ages and the name of the
\* first sheet that has the longest valid-age list, in every document.
C4_FirstLongestAlways ==
    /\ appBest # Unset => SelectsFirstLongest(workbook, appBest, agesOfRows_App)
    /\ gsBest # Unset => SelectsFirstLongest(workbook, gsBest, agesOfRows_gs)

\* C4 as amended: when some sheet has a valid age, the column selector
\* returns the ages and the name of the first sheet that has the longest
\* valid-age list; when no sheet has one, it returns no ages and the sheet
\* name ''.  For sheets A (2 valid ages) and B (5 valid ages) it returns B's
\* ages and the name B in both orders.
C4_FirstLongestOrEmpty ==
    /\ appBest # Unset =>
        /\ IF SomeValidAge(workbook, agesOfRows_App)
           THEN SelectsFirstLongest(workbook, appBest, agesOfRows_App)
           ELSE appBest = [ages |-> <<>>, sheetName |-> "", count |-> 0]
        /\ appBest.count = Len(appBest.ages)
        /\ workbook \in TwoAndFive =>
               appBest.sheetName = "B" /\ appBest.ages = <<0, 3, 10, 20, 70>>
    /\ gsBest # Unset =>
        /\ IF SomeValidAge(workbook, agesOfRows_gs)
           THEN SelectsFirstLongest(workbook, gsBest, agesOfRows_gs)
           ELSE gsBest = [ages |-> <<>>, sheetName |-> ""]
        /\ workbook \in TwoAndFive =>
               gsBest.sheetName = "B" /\ gsBest.ages = <<0, 3, 10, 20, 70>>

C4_Witness ==
    /\ workbook = << Sheet("A", TwoValid), Sheet("B", FiveValid) >>
    /\ appBest # Unset /\ appBest.sheetName = "B" /\ appBest.count = 5
    /\ gsBest # Unset /\ gsBest.sheetName = "B"

\* Two sheets tie for the longest list and the first is selected.
C4_TieWitness ==
    /\ workbook = << Sheet("B", <<NumberCell(0, 1)>>), Sheet("A", <<NumberCell(1205, 10)>>) >>
    /\ appBest # Unset /\ appBest.sheetName = "B" /\ appBest.ages = <<0>>

-----------------------------------------------------------------------------
(* Dates                                                                   *)
(* A Date object is the number of days from 1970-01-01 to its local        *)
(* calendar day; every Date of the program is a local midnight.            *)

DateOf(n) == [k |-> "date", days |-> n]

\* The day number of the calendar day d of month m (1..12) of year y:
\* years are counted from March, in eras of 400 years (146097 days).
daysOfEra(era, yoe, doy) ==
    era * 146097 + yoe * 365 + yoe \div 4 - yoe \div 100 + doy - 719468

daysFromMarch(yy, mp, d) ==
    daysOfEra(yy \div 400, yy % 400, (153 * mp + 2) \div 5 + d - 1)

DaysFromCivil(y, m, d) ==
    daysFromMarch(IF m <= 2 THEN y - 1 ELSE y, IF m > 2 THEN m - 3 ELSE m + 9, d)

\* The calendar day of a day number: the era, the year of the era, the day
\* of the year counted from March, and the month counted from March.
civilOfMonth(y, doy, mp) ==
    [year |-> IF mp < 10 THEN y ELSE y + 1,
     month |-> IF mp < 10 THEN mp + 3 ELSE mp - 9,
     day |-> doy - (153 * mp + 2) \div 5 + 1]

civilOfDay(y, doy) == civilOfMonth(y, doy, (5 * doy + 2) \div 153)

civilOfYear(era, yoe, doe) ==
    civilOfDay(yoe + era * 400, doe - (365 * yoe + yoe \div 4 - yoe \div 100))

civilOfEra(era, doe) ==
    civilOfYear(era, (doe - doe \div 1460 + doe \div 36524 - doe \div 146096) \div 365, doe)

CivilFromDays(n) == civilOfEra((n + 719468) \div 146097, (n + 719468) % 146097)

\* MakeDay: the day `day` of the month with index monthIndex of fullYear;
\* a month index outside 0..11 and a day outside the month carry over.
makeDay(fullYear, monthIndex, day) ==
    DateOf(DaysFromCivil(fullYear + monthIndex \div 12, (monthIndex % 12) + 1, 1) + day - 1)

\* new Date(year, monthIndex, day): a year in 0..99 means 1900 + year.
newDate(year, monthIndex, day) ==
    makeDay(IF year >= 0 /\ year <= 99 THEN 1900 + year ELSE year, monthIndex, day)

getFullYear(date) == CivilFromDays(date.days).year
getMonth(date) == CivilFromDays(date.days).month - 1
getDate(date) == CivilFromDays(date.days).day
\* getDay: 0 = Sunday .. 6 = Saturday; 1970-01-01 was a Thursday.
getDay(date) == (date.days + 4) % 7

\* date.setDate(n) on a copy of the date
setDate(date, n) == makeDay(getFullYear(date), getMonth(date), n)

DigitChar(d) ==
    CASE d = 0 -> "0" [] d = 1 -> "1" [] d = 2 -> "2" [] d = 3 -> "3"
      [] d = 4 -> "4" [] d = 5 -> "5" [] d = 6 -> "6" [] d = 7 -> "7"
      [] d = 8 -> "8" [] d = 9 -> "9"

\* String(n) / `${n}` for an integer n >= 0
RECURSIVE numberToString(_)
numberToString(n) ==
    IF n < 10 THEN <<DigitChar(n)>>
    ELSE numberToString(n \div 10) \o <<DigitChar(n % 10)>>

\* s.padStart(2, '0')
padStart2(s) == IF Len(s) < 2 THEN <<"0">> \o s ELSE s

\* value.split(sep)
RECURSIVE split(_, _)
split(s, sep) ==
    LET hits == {i \in 1..Len(s) : s[i] = sep}
    IN  IF hits = {} THEN <<s>>
        ELSE <<SubSeq(s, 1, Min(hits) - 1)>> \o split(SubSeq(s, Min(hits) + 1, Len(s)), sep)

\* !x for a number or undefined
falsy(x) == x = NaN \/ x = Undefined \/ x.num = 0

\* The Date is returned without the round trip (a day outside its month
\* carries over into the next month).
roundTrip_Unchecked(date, year, month, day) == date

\* parseDateString, the round trip: the Date, or Null when a getter differs
\* from the number it was built from
roundTrip(date, year, month, day) ==
    IF \/ getFullYear(date) * year.den # year.num
       \/ (getMonth(date) + 1) * month.den # month.num
       \/ getDate(date) * day.den # day.num
    THEN Null
    ELSE date

\* parseDateString from the three numbers on
dateOfNumbers(year, month, day) ==
    IF falsy(year) \/ falsy(month) \/ falsy(day) THEN Null
    ELSE roundTrip(newDate(year.num \div year.den,
                           month.num \div month.den - 1,
                           day.num \div day.den),
                   year, month, day)

\* const [year, month, day] = value.split('-').map(Number)
numberAt(parts, i) == IF i <= Len(parts) THEN ToNumber(parts[i]) ELSE Undefined

dateOfParts(parts) ==
    dateOfNumbers(numberAt(parts, 1), numberAt(parts, 2), numberAt(parts, 3))

\* App.jsx parseDateString: a Date, or Null
parseDateString(value) ==
    IF value = <<>> THEN Null ELSE dateOfParts(split(value, "-"))

\* App.jsx formatDate
formatDate(date) ==
    numberToString(getFullYear(date)) \o <<"-">>
        \o padStart2(numberToString(getMonth(date) + 1)) \o <<"-">>
        \o padStart2(numberToString(getDate(date)))

\* A Sunday belongs to the week that starts the day after it.
diffToMonday_SundayAhead(day) == IF day = 0 THEN -1 ELSE day - 1

\* getWeekStartMonday: diffToMonday
diffToMonday(day) == (day + 6) % 7

\* A week that starts on the Sunday on or before the date (day for
\* (day + 6) % 7).
getWeekStartMonday_FromSunday(date) ==
    setDate(date, getDate(date) - getDay(date))

\* App.jsx getWeekStartMonday
getWeekStartMonday(date) ==
    setDate(date, getDate(date) - diffToMonday(getDay(date)))

\* Seven expected dates, Monday to Sunday (offset <= 6 for offset <= 5).
buildExpectedWeekDates_Seven(monday) ==
    [i \in 1..7 |-> formatDate(setDate(monday, getDate(monday) + (i - 1)))]

\* App.jsx buildExpectedWeekDates: offsets 0..5
buildExpectedWeekDates(monday) ==
    [i \in 1..6 |-> formatDate(setDate(monday, getDate(monday) + (i - 1)))]

Elements(seq) == {seq[i] : i \in 1..Len(seq)}

\* Array.from(new Set(list)): the first occurrence of each value, in order
RECURSIVE unique(_)
unique(list) ==
    IF list = <<>> THEN <<>>
    ELSE LET init == unique(SubSeq(list, 1, Len(list) - 1))
             last == list[Len(list)]
         IN  IF last \in Elements(init) THEN init ELSE Append(init, last)

\* The UTF-16 code unit of a character of a date string
charCode(c) == IF c = "-" THEN 45 ELSE 48 + DigitVal(c)

\* a < b in the order of Array.prototype.sort without a comparator
RECURSIVE stringLess(_, _)
stringLess(a, b) ==
    IF b = <<>> THEN FALSE
    ELSE IF a = <<>> THEN TRUE
    ELSE IF charCode(a[1]) # charCode(b[1]) THEN charCode(a[1]) < charCode(b[1])
    ELSE stringLess(Tail(a), Tail(b))

\* list.sort() of distinct strings
RECURSIVE sortStrings(_)
sortStrings(list) ==
    IF list = <<>> THEN <<>>
    ELSE LET least == CHOOSE x \in Elements(list) :
                          \A y \in Elements(list) : y = x \/ stringLess(x, y)
         IN  <<least>> \o sortStrings(SelectSeq(list, LAMBDA v : v # least))

\* parsedDates.sort((a, b) => a - b)[0]
earliestDate(dates) ==
    CHOOSE x \in Elements(dates) : \A y \in Elements(dates) : x.days <= y.days

RECURSIVE parseAll(_)
parseAll(list) ==
    IF list = <<>> THEN <<>>
    ELSE LET date == parseDateString(Head(list))
         IN  (IF date = Null THEN <<>> ELSE <<date>>) \o parseAll(Tail(list))

\* analyzeWeekDates, the returned object
weekCheckOf(uniqueDates, weekStart, expectedDates) ==
    [ weekStart |-> formatDate(weekStart),
      weekEnd |-> formatDate(newDate(getFullYear(weekStart),
                                     getMonth(weekStart),
                                     getDate(weekStart) + 5)),
      missingDays |->
          SelectSeq(expectedDates, LAMBDA v : v \notin Elements(uniqueDates)),
      outOfRange |->
          sortStrings(SelectSeq(uniqueDates, LAMBDA v : v \notin Elements(expectedDates))) ]

\* analyzeWeekDates from weekStart on
analyzeWeek(uniqueDates, weekStart) ==
    weekCheckOf(uniqueDates, weekStart, buildExpectedWeekDates(weekStart))

\* analyzeWeekDates from parsedDates on
analyzeParsed(uniqueDates, parsedDates) ==
    IF parsedDates = <<>> THEN Null
    ELSE analyzeWeek(uniqueDates, getWeekStartMonday(earliestDate(parsedDates)))

\* analyzeWeekDates from uniqueDates on
analyzeUnique(uniqueDates) ==
    IF uniqueDates = <<>> THEN Null
    ELSE analyzeParsed(uniqueDates, parseAll(uniqueDates))

\* App.jsx analyzeWeekDates
analyzeWeekDates(strings) == analyzeUnique(unique(strings))

-----------------------------------------------------------------------------
(* SpecWeek: analyzeWeekDates on lists of date strings                     *)

MaxDates == 3

\* The text YYYY-MM-DD of three numbers, as a file name carries it
DateText(y, m, d) ==
    LET pad4(t) == IF Len(t) < 4 THEN [i \in 1..(4 - Len(t)) |-> "0"] \o t ELSE t
    IN  pad4(numberToString(y)) \o <<"-">> \o padStart2(numberToString(m))
            \o <<"-">> \o padStart2(numberToString(d))

\* Days of the week of 2024-06-10, its neighbours, a year boundary, a leap
\* day, and texts that name no calendar day.
DateStringPool ==
    { DateText(2024, 6, 9), DateText(2024, 6, 10), DateText(2024, 6, 12),
      DateText(2024, 6, 15), DateText(2024, 6, 16), DateText(2024, 6, 17),
      DateText(2024, 12, 30), DateText(2025, 1, 1), DateText(2024, 2, 29),
      DateText(2023, 2, 29), DateText(2024, 2, 30), DateText(2024, 13, 1) }

ListsUpTo(S, n) == UNION {[1..k -> S] : k \in 0..n}

FullWeek ==
    << DateText(2024, 6, 13), DateText(2024, 6, 10), DateText(2024, 6, 15),
       DateText(2024, 6, 11), DateText(2024, 6, 14), DateText(2024, 6, 12),
       DateText(2024, 6, 10) >>

DateListPool == ListsUpTo(DateStringPool, MaxDates) \cup {FullWeek}

InitWeek ==
    /\ dateStrings \in DateListPool
    /\ weekCheck = Unset
    /\ AgeIdle /\ SheetIdle /\ CountIdle /\ UploadIdle /\ RestIdle

AnalyzeWeekDates ==
    /\ weekCheck = Unset
    /\ weekCheck' = analyzeWeekDates(dateStrings)
    /\ UNCHANGED <<dateStrings, ageVars, sheetVars, countVars, uploadVars, restVars>>

NextWeek == AnalyzeWeekDates

SpecWeek == InitWeek /\ [][NextWeek]_vars

-----------------------------------------------------------------------------
(* The calendar the claims speak of                                        *)

IsLeapYear(y) == (y % 4 = 0 /\ y % 100 # 0) \/ y % 400 = 0

DaysInMonth(y, m) ==
    IF m = 2 THEN (IF IsLeapYear(y) THEN 29 ELSE 28)
    ELSE IF m \in {4, 6, 9, 11} THEN 30 ELSE 31

RealDate(y, m, d) == y >= 1 /\ m \in 1..12 /\ d >= 1 /\ d <= DaysInMonth(y, m)

\* The Julian day number of a calendar day
JulianDay(y, m, d) ==
    LET a == IF m <= 2 THEN 1 ELSE 0
        yy == y + 4800 - a
        mm == m + 12 * a - 3
    IN  d + (153 * mm + 2) \div 5 + 365 * yy + yy \div 4 - yy \div 100
          + yy \div 400 - 32045

\* 0 = Sunday .. 6 = Saturday
DayOfWeek(y, m, d) == (JulianDay(y, m, d) + 1) % 7

\* A text of the shape dddd-dd-dd
HasDateShape(s) ==
    /\ Len(s) = 10
    /\ s[5] = "-" /\ s[8] = "-"
    /\ \A i \in {1, 2, 3, 4, 6, 7, 9, 10} : IsDigit(s[i])

YearOf(s) == DecimalValue(SubSeq(s, 1, 4))
MonthOf(s) == DecimalValue(SubSeq(s, 6, 7))
DayOf(s) == DecimalValue(SubSeq(s, 9, 10))

IsCalendarDate(s) == HasDateShape(s) /\ RealDate(YearOf(s), MonthOf(s), DayOf(s))
DayNumber(s) == JulianDay(YearOf(s), MonthOf(s), DayOf(s))
WeekdayOf(s) == DayOfWeek(YearOf(s), MonthOf(s), DayOf(s))

ValidInputs == {s \in Elements(dateStrings) : IsCalendarDate(s)}

EarliestInput ==
    CHOOSE s \in ValidInputs : \A t \in ValidInputs : DayNumber(s) <= DayNumber(t)

Analyzed == weekCheck # Unset

\* C9: when the input holds at least one valid calendar date, the result's
\* weekStart is the Monday found by going (dayOfWeek + 6) mod 7 days back
\* from the earliest valid input date, and weekEnd is the Saturday five days
\* after weekStart; for ["2024-06-12"] the result is weekStart 2024-06-10,
\* weekEnd 2024-06-15, missingDays 06-10, 06-11, 06-13, 06-14, 06-15 and an
\* empty outOfRange.
C9_WeekOfEarliestDate ==
    (Analyzed /\ ValidInputs # {}) =>
        /\ weekCheck # Null
        /\ IsCalendarDate(weekCheck.weekStart)
        /\ IsCalendarDate(weekCheck.weekEnd)
        /\ DayNumber(weekCheck.weekStart) =
              DayNumber(EarliestInput) - ((WeekdayOf(EarliestInput) + 6) % 7)
        /\ WeekdayOf(weekCheck.weekStart) = 1
        /\ DayNumber(weekCheck.weekEnd) = DayNumber(weekCheck.weekStart) + 5
        /\ WeekdayOf(weekCheck.weekEnd) = 6
        /\ dateStrings = <<DateText(2024, 6, 12)>> =>
              weekCheck = [ weekStart |-> DateText(2024, 6, 10),
                            weekEnd |-> DateText(2024, 6, 15),
                            missingDays |-> << DateText(2024, 6, 10),
                                               DateText(2024, 6, 11),
                                               DateText(2024, 6, 13),
                                               DateText(2024, 6, 14),
                                               DateText(2024, 6, 15) >>,
                            outOfRange |-> <<>> ]

\* The earliest valid date is a Sunday, is not the first of the input, and
\* the week found is the one that ends the day before it.
C9_Witness ==
    /\ Analyzed
    /\ dateStrings = <<DateText(2024, 6, 17), DateText(2024, 2, 30), DateText(2024, 6, 16)>>
    /\ weekCheck # Null
    /\ weekCheck.weekStart = DateText(2024, 6, 10)
    /\ weekCheck.weekEnd = DateText(2024, 6, 15)

C9_ExampleWitness ==
    /\ Analyzed
    /\ dateStrings = <<DateText(2024, 6, 12)>>
    /\ weekCheck # Null
    /\ weekCheck.weekStart = DateText(2024, 6, 10)

\* One of the six days Monday..Saturday of the result's week
IsExpectedDate(s) ==
    /\ IsCalendarDate(s)
    /\ DayNumber(s) - DayNumber(weekCheck.weekStart) \in 0..5

\* a before b, for two texts of the shape dddd-dd-dd
DateTextBefore(a, b) ==
    \/ YearOf(a) < YearOf(b)
    \/ YearOf(a) = YearOf(b) /\ MonthOf(a) < MonthOf(b)
    \/ YearOf(a) = YearOf(b) /\ MonthOf(a) = MonthOf(b) /\ DayOf(a) < DayOf(b)

Ascending(list) ==
    \A i, j \in 1..Len(list) : i < j => DateTextBefore(list[i], list[j])

\* C10: in a non-null result missingDays lists, in ascending order, exactly
\* the expected Monday..Saturday dates that the input lacks, outOfRange
\* lists, in ascending order and once each, exactly the input strings that
\* are not expected dates, the two lists share no entry, and every input
\* string is an expected date or is in outOfRange.
C10_MissingAndOutOfRange ==
    (Analyzed /\ weekCheck # Null) =>
        LET inputs == Elements(dateStrings)
            missing == weekCheck.missingDays
            outside == weekCheck.outOfRange
        IN  /\ \A s \in Elements(missing) : IsExpectedDate(s) /\ s \notin inputs
            /\ Len(missing) + Cardinality({s \in inputs : IsExpectedDate(s)}) = 6
            /\ Ascending(missing)
            /\ Elements(outside) = {s \in inputs : ~IsExpectedDate(s)}
            /\ Ascending(outside)
            /\ Elements(missing) \cap Elements(outside) = {}
            /\ \A s \in inputs : IsExpectedDate(s) \/ s \in Elements(outside)

\* Both lists are non-empty: two days of the week are given out of order,
\* with a day of the next week and a text that names no day.
C10_Witness ==
    /\ Analyzed /\ weekCheck # Null
    /\ Len(dateStrings) = 3
    /\ dateStrings[1] = DateText(2024, 6, 17)
    /\ dateStrings[3] = DateText(2024, 6, 12)
    /\ Len(weekCheck.outOfRange) = 2
    /\ Len(weekCheck.missingDays) = 5

\* No day is missing: all six days are given, one of them twice.
C10_FullWeekWitness ==
    /\ Analyzed /\ weekCheck # Null
    /\ dateStrings = FullWeek
    /\ weekCheck.missingDays = <<>>
    /\ weekCheck.outOfRange = <<>>

\* C11: analyzeWeekDates returns null exactly when the input, after
\* deduplication, is empty or holds no string that is a valid calendar
\* date; in every other case it returns a week check with its four fields.
C11_NullIffNoValidDate ==
    Analyzed =>
        /\ weekCheck = Null <=> ValidInputs = {}
        /\ weekCheck # Null =>
              DOMAIN weekCheck = {"weekStart", "weekEnd", "missingDays", "outOfRange"}

\* A non-empty input without any valid date: null.
C11_Witness ==
    /\ Analyzed
    /\ dateStrings = <<DateText(2024, 2, 30), DateText(2023, 2, 29), DateText(2024, 2, 30)>>
    /\ weekCheck = Null

C11_EmptyWitness == Analyzed /\ dateStrings = <<>> /\ weekCheck = Null

-----------------------------------------------------------------------------
(* FileNameAnalyzer and the upload handler of App.jsx                      *)

\* The suffixes of handleUploadFiles, one token per Hangul syllable
visitSuffix == <<"chong", "hwan", "ja", "su">>
feverSuffix == <<"bal", "yeol", "hwan", "ja", "su">>
suffixOf(type) == IF type = "visit" THEN visitSuffix ELSE feverSuffix

TARGET_COLUMN_LABEL == <<"D", "yeol">>

\* The lower-case form of a character, for the letters of the extension
lowerCase(c) ==
    CASE c = "X" -> "x" [] c = "L" -> "l" [] c = "S" -> "s" [] OTHER -> c

lowerCaseAll(t) == [i \in 1..Len(t) |-> lowerCase(t[i])]

\* The extension is compared as written (no 'i' flag).
matchFileName_CaseSensitive(name, suffix) ==
    LET n == Len(suffix)
        ext == SubSeq(name, 13 + n, Len(name))
    IN  IF /\ Len(name) >= 13 + n
           /\ \A i \in {1, 2, 3, 4, 6, 7, 9, 10} : IsDigit(name[i])
           /\ name[5] = "-" /\ name[8] = "-"
           /\ name[11] = "_"
           /\ SubSeq(name, 12, 11 + n) = suffix
           /\ name[12 + n] = "."
           /\ ext \in {<<"x", "l", "s", "x">>, <<"x", "l", "s">>}
        THEN SubSeq(name, 1, 10)
        ELSE NoMatch

\* file.name.match(buildFileRegex(suffix)): match[1], or NoMatch.  The
\* pattern is ^(\d{4}-\d{2}-\d{2})_<suffix>\.(xlsx|xls)$ with the flag i.
matchFileName(name, suffix) ==
    LET n == Len(suffix)
        ext == SubSeq(name, 13 + n, Len(name))
    IN  IF /\ Len(name) >= 13 + n
           /\ \A i \in {1, 2, 3, 4, 6, 7, 9, 10} : IsDigit(name[i])
           /\ name[5] = "-" /\ name[8] = "-"
           /\ name[11] = "_"
           /\ lowerCaseAll(SubSeq(name, 12, 11 + n)) = lowerCaseAll(suffix)
           /\ name[12 + n] = "."
           /\ lowerCaseAll(ext) \in {<<"x", "l", "s", "x">>, <<"x", "l", "s">>}
        THEN SubSeq(name, 1, 10)
        ELSE NoMatch

\* The contents of a file: sheets that XLSX.read returns, or bytes that
\* make arrayBuffer or XLSX.read throw.
Workbook(sheets) == [k |-> "workbook", sheets |-> sheets]
Unreadable == [k |-> "unreadable"]

NO_AGES == "no ages in column D"
READ_FAILED == "file not read"

\* The callback of files.map in handleUploadFiles
parseFile(file, suffix) ==
    LET match == matchFileName(file.name, suffix)
        readable == file.content.k = "workbook"
        result == IF readable THEN findAgesInWorkbook(file.content.sheets)
                  ELSE [ages |-> <<>>, sheetName |-> "", count |-> 0]
    IN  [ name |-> file.name,
          dateString |-> IF match # NoMatch THEN Some(match) ELSE Null,
          nameIssue |-> IF match # NoMatch
                        THEN (IF parseDateString(match) = Null THEN "date" ELSE "")
                        ELSE "pattern",
          ages |-> result.ages,
          error |-> IF ~readable THEN READ_FAILED
                    ELSE IF Len(result.ages) = 0 THEN NO_AGES ELSE "",
          source |-> IF readable /\ result.sheetName # ""
                     THEN <<result.sheetName, " / ">> \o TARGET_COLUMN_LABEL
                     ELSE <<>> ]

\* The collation rank String.prototype.localeCompare gives a character of
\* a file name: punctuation, then digits, then letters, then Hangul.
collationRank(c) ==
    LET l == lowerCase(c)
        letters == <<"d", "e", "l", "o", "p", "r", "s", "t", "x">>
        hangul == <<"bal", "su", "yeol", "ja", "chong", "hwan">>
    IN  IF l = "_" THEN 1
        ELSE IF l = "-" THEN 2
        ELSE IF l = "." THEN 3
        ELSE IF IsDigit(l) THEN 10 + DigitVal(l)
        ELSE IF \E i \in 1..Len(letters) : letters[i] = l
             THEN 20 + (CHOOSE i \in 1..Len(letters) : letters[i] = l)
        ELSE 40 + (CHOOSE i \in 1..Len(hangul) : hangul[i] = l)

RECURSIVE comparePrimary(_, _)
comparePrimary(a, b) ==
    IF a = <<>> /\ b = <<>> THEN 0
    ELSE IF a = <<>> THEN -1
    ELSE IF b = <<>> THEN 1
    ELSE IF collationRank(a[1]) < collationRank(b[1]) THEN -1
    ELSE IF collationRank(a[1]) > collationRank(b[1]) THEN 1
    ELSE comparePrimary(Tail(a), Tail(b))

\* a.localeCompare(b): letters first without case, a lower-case letter
\* before its upper-case form when nothing else differs
localeCompare(a, b) ==
    LET differ == {i \in 1..Len(a) : a[i] # b[i]}
    IN  IF comparePrimary(a, b) # 0 THEN comparePrimary(a, b)
        ELSE IF differ = {} THEN 0
        ELSE IF lowerCase(a[Min(differ)]) = a[Min(differ)] THEN -1 ELSE 1

\* The comparator of sortedFiles, from dateA and dateB on
compareDated(a, b, dateA, dateB) ==
    IF dateA # Null /\ dateB # Null THEN dateA.days - dateB.days
    ELSE IF dateA # Null THEN -1
    ELSE IF dateB # Null THEN 1
    ELSE localeCompare(a.name, b.name)

\* a.dateString ? parseDateString(a.dateString) : null
dateOfFile(a) == IF a.dateString # Null THEN parseDateString(a.dateString.v) ELSE Null

\* The comparator of sortedFiles
compareFiles(a, b) == compareDated(a, b, dateOfFile(a), dateOfFile(b))

\* [...parsedFiles].sort(compareFiles): a stable sort
RECURSIVE sortFiles(_)
sortFiles(list) ==
    IF list = <<>> THEN <<>>
    ELSE LET init == sortFiles(SubSeq(list, 1, Len(list) - 1))
             last == list[Len(list)]
             after == {i \in 1..Len(init) : compareFiles(init[i], last) > 0}
             at == IF after = {} THEN Len(init) + 1 ELSE Min(after)
         IN  SubSeq(init, 1, at - 1) \o <<last>> \o SubSeq(init, at, Len(init))

\* The ages are gathered up to the first file that could not be read.
RECURSIVE flatAges_UntilError(_)
flatAges_UntilError(files) ==
    IF files = <<>> THEN <<>>
    ELSE IF Head(files).error = READ_FAILED THEN <<>>
    ELSE Head(files).ages \o flatAges_UntilError(Tail(files))

\* parsedFiles.flatMap((file) => file.ages || [])
RECURSIVE flatAges(_)
flatAges(files) ==
    IF files = <<>> THEN <<>> ELSE Head(files).ages \o flatAges(Tail(files))

namesOf(files) == [i \in 1..Len(files) |-> files[i].name]

\* The dates of the files that count towards dateCounts, one per file
countedDates(files) ==
    LET counted == SelectSeq(files, LAMBDA f : ~(f.dateString = Null \/ f.nameIssue # ""))
    IN  [i \in 1..Len(counted) |-> counted[i].dateString.v]

\* dateCounts.entries(): the dates in the order of their first file
dateCounts(files) ==
    LET dates == countedDates(files)
        keys == unique(dates)
    IN  [i \in 1..Len(keys) |->
            [date |-> keys[i],
             count |-> Cardinality({j \in 1..Len(dates) : dates[j] = keys[i]})]]

\* Only a date of three or more files is reported (entry[1] > 2).
duplicateDates_MoreThanTwo(files) ==
    SelectSeq(dateCounts(files), LAMBDA entry : entry.count > 2)

\* buildUploadWarnings: duplicateDates
duplicateDates(files) ==
    SelectSeq(dateCounts(files), LAMBDA entry : entry.count > 1)

\* One warning: its category and what its text lists, in the text's order
Warning(kind, items) == [kind |-> kind, items |-> items]

\* The missing weekdays are warned of before the dates of other weeks.
weekWarnings_MissingFirst(check) ==
    IF check = Null THEN <<>>
    ELSE (IF check.missingDays # <<>> THEN <<Warning("missingDays", check.missingDays)>> ELSE <<>>)
         \o (IF check.outOfRange # <<>> THEN <<Warning("outOfRange", check.outOfRange)>> ELSE <<>>)

\* buildUploadWarnings: if (weekCheck) { ... }
weekWarnings(check) ==
    IF check = Null THEN <<>>
    ELSE (IF check.outOfRange # <<>> THEN <<Warning("outOfRange", check.outOfRange)>> ELSE <<>>)
         \o (IF check.missingDays # <<>> THEN <<Warning("missingDays", check.missingDays)>> ELSE <<>>)

\* App.jsx buildUploadWarnings
buildUploadWarnings(files, check) ==
    LET invalidNameFiles == SelectSeq(files, LAMBDA f : f.nameIssue = "pattern")
        invalidDateFiles == SelectSeq(files, LAMBDA f : f.nameIssue = "date")
        readErrors == SelectSeq(files, LAMBDA f : f.error # "")
        when(cond, w) == IF cond THEN <<w>> ELSE <<>>
    IN  when(invalidNameFiles # <<>>, Warning("pattern", namesOf(invalidNameFiles)))
        \o when(invalidDateFiles # <<>>, Warning("date", namesOf(invalidDateFiles)))
        \o when(readErrors # <<>>, Warning("read", namesOf(readErrors)))
        \o when(duplicateDates(files) # <<>>, Warning("duplicate", duplicateDates(files)))
        \o weekWarnings(check)

\* handleUploadFiles: the object handed to the setter
uploadStateOf(parsed, check) ==
    [ files |-> sortFiles(parsed),
      ages |-> flatAges(parsed),
      warnings |-> buildUploadWarnings(parsed, check),
      weekCheck |-> check ]

\* Only the dates of the files without a name issue go to the week check.
validDatesOf_NoIssue(parsed) ==
    LET valid == SelectSeq(parsed, LAMBDA f : f.dateString # Null /\ f.nameIssue = "")
    IN  [i \in 1..Len(valid) |-> valid[i].dateString.v]

\* handleUploadFiles: validDates
validDatesOf(parsed) ==
    LET valid == SelectSeq(parsed, LAMBDA f : f.dateString # Null /\ f.nameIssue # "pattern")
    IN  [i \in 1..Len(valid) |-> valid[i].dateString.v]

\* handleUploadFiles, from sortedFiles on
uploadResult(parsed) == uploadStateOf(parsed, analyzeWeekDates(validDatesOf(parsed)))

-----------------------------------------------------------------------------
(* SpecUpload: one call of handleUploadFiles                               *)

MaxFiles == 2

File(name, content) == [name |-> name, content |-> content]

FileName(date, suffix, ext) == date \o <<"_">> \o suffix \o <<".">> \o ext

xlsx == <<"x", "l", "s", "x">>
xls == <<"x", "l", "s">>

\* Names of both kinds: a date twice, an upper-case extension, a date that
\* names no day, a name without a date.
NamePool ==
    { FileName(DateText(2024, 6, 10), visitSuffix, xlsx),
      FileName(DateText(2024, 6, 10), visitSuffix, xls),
      FileName(DateText(2024, 6, 12), visitSuffix, <<"X", "L", "S", "X">>),
      FileName(DateText(2024, 2, 30), visitSuffix, xlsx),
      <<"r", "e", "p", "o", "r", "t", "_">> \o visitSuffix \o <<".">> \o xlsx,
      FileName(DateText(2024, 6, 12), feverSuffix, xlsx) }

\* Sheets with the ages 3 and 70 (and a text cell), sheets with the age 10,
\* and bytes that cannot be read.
ContentPool ==
    { Workbook(<< Sheet("A", <<NumberCell(3, 1), StringCell(<<"1", "2", "se">>),
                              NumberCell(70, 1)>>) >>),
      Workbook(<< Sheet("A", <<NullCell>>), Sheet("B", <<NumberCell(10, 1)>>) >>),
      Unreadable }

FilePool == {File(n, c) : n \in NamePool, c \in ContentPool}

\* A file list holds no name twice.
DistinctNames(list) ==
    \A i, j \in 1..Len(list) : i # j => list[i].name # list[j].name

\* Names that miss the pattern by one character, and a readable file
\* without any age.
NearMisses ==
    { <<"2", "0", "2", "4", "-", "6", "-", "1", "2", "_">> \o visitSuffix \o <<".">> \o xlsx,
      FileName(DateText(2024, 6, 12), visitSuffix, xlsx \o <<"x">>),
      <<"x">> \o FileName(DateText(2024, 6, 12), visitSuffix, xlsx),
      FileName(DateText(2024, 6, 12), visitSuffix, <<"x", "l">>),
      DateText(2024, 6, 12) \o <<"-">> \o visitSuffix \o <<".">> \o xlsx,
      DateText(2024, 6, 12) \o <<"_">> \o visitSuffix \o <<"_">> \o xlsx,
      FileName(DateText(2024, 6, 12), <<"chong", "hwan", "ja">>, xlsx) }

\* A batch with a name of every classification, a batch with one date
\* three times beside another date, and fever files of two weeks with one
\* date twice.
ThreeKinds ==
    << File(<<"r", "e", "p", "o", "r", "t", "_">> \o visitSuffix \o <<".">> \o xlsx,
            Workbook(<<Sheet("A", <<NumberCell(5, 1)>>)>>)),
       File(FileName(DateText(2024, 2, 30), visitSuffix, xlsx),
            Workbook(<<Sheet("A", <<NumberCell(6, 1)>>)>>)),
       File(FileName(DateText(2024, 6, 12), visitSuffix, <<"X", "L", "S", "X">>),
            Workbook(<<Sheet("A", <<NumberCell(7, 1), NumberCell(8, 1)>>)>>)) >>

ThreeOfOneDate ==
    << File(FileName(DateText(2024, 6, 10), visitSuffix, xlsx),
            Workbook(<<Sheet("A", <<NumberCell(1, 1)>>)>>)),
       File(FileName(DateText(2024, 6, 11), visitSuffix, xlsx),
            Workbook(<<Sheet("A", <<NumberCell(2, 1)>>)>>)),
       File(FileName(DateText(2024, 6, 10), visitSuffix, xls),
            Workbook(<<Sheet("A", <<NumberCell(1, 1), NumberCell(3, 1)>>)>>)),
       File(FileName(DateText(2024, 6, 10), visitSuffix, <<"X", "L", "S">>),
            Unreadable) >>

TwoWeeks ==
    << File(FileName(DateText(2024, 6, 17), feverSuffix, xlsx),
            Workbook(<<Sheet("A", <<NumberCell(30, 1)>>)>>)),
       File(FileName(DateText(2024, 6, 12), feverSuffix, xls),
            Workbook(<<Sheet("A", <<NumberCell(40, 1)>>)>>)),
       File(FileName(DateText(2024, 6, 12), feverSuffix, xlsx),
            Workbook(<<Sheet("A", <<NullCell, StringCell(<<"7">>)>>)>>)) >>

\* The six visit files of the week of 10 June, each with one age
SixDayBatch ==
    [ d \in 1..6 |-> File(FileName(DateText(2024, 6, 9 + d), visitSuffix, xlsx),
                          Workbook(<<Sheet("A", <<NumberCell(d, 1)>>)>>)) ]

ExampleBatches ==
    { <<File(n, Unreadable)>> : n \in NearMisses }
    \cup {ThreeKinds, ThreeOfOneDate, TwoWeeks, SixDayBatch}
    \cup { << File(FileName(DateText(2024, 6, 11), visitSuffix, xlsx),
                   Workbook(<<Sheet("A", <<NullCell, StringCell(<<"7">>)>>)>>)) >> }

BatchPool ==
    {list \in ListsUpTo(FilePool, MaxFiles) : DistinctNames(list)} \cup ExampleBatches

InitUpload ==
    /\ fileList \in BatchPool
    /\ uploadType \in {"visit", "fever"}
    /\ parsedFiles = [i \in 1..Len(fileList) |-> Unset]
    /\ uploadPc = "parsing"
    /\ visitUpload = EmptyUpload
    /\ feverUpload = EmptyUpload
    /\ AgeIdle /\ SheetIdle /\ CountIdle /\ WeekIdle /\ RestIdle

\* handleUploadFiles: if (!files.length) return
ReturnEmpty ==
    /\ uploadPc = "parsing"
    /\ fileList = <<>>
    /\ uploadPc' = "returned"
    /\ UNCHANGED <<fileList, uploadType, parsedFiles, visitUpload, feverUpload>>
    /\ UNCHANGED <<ageVars, sheetVars, countVars, weekVars, restVars>>

\* The callback of files.map completes for the file at index i.
ParseFile(i) ==
    /\ uploadPc = "parsing"
    /\ parsedFiles[i] = Unset
    /\ parsedFiles' = [parsedFiles EXCEPT ![i] = parseFile(fileList[i], suffixOf(uploadType))]
    /\ UNCHANGED <<fileList, uploadType, uploadPc, visitUpload, feverUpload>>
    /\ UNCHANGED <<ageVars, sheetVars, countVars, weekVars, restVars>>

\* handleUploadFiles after await Promise.all: sort, week check, warnings
\* and the setter of the dataset kind.
FinishUpload ==
    /\ uploadPc = "parsing"
    /\ fileList # <<>>
    /\ \A i \in 1..Len(parsedFiles) : parsedFiles[i] # Unset
    /\ \E result \in {uploadResult(parsedFiles)} :
          IF uploadType = "visit"
          THEN visitUpload' = result /\ UNCHANGED feverUpload
          ELSE feverUpload' = result /\ UNCHANGED visitUpload
    /\ uploadPc' = "returned"
    /\ UNCHANGED <<fileList, uploadType, parsedFiles>>
    /\ UNCHANGED <<ageVars, sheetVars, countVars, weekVars, restVars>>

NextUpload ==
    \/ ReturnEmpty
    \/ \E i \in 1..Len(fileList) : ParseFile(i)
    \/ FinishUpload

SpecUpload == InitUpload /\ [][NextUpload]_vars

-----------------------------------------------------------------------------
(* The file names and batches the claims speak of                          *)

\* The spellings of an extension in any mix of cases
CaseVariants(word) ==
    LET upper(c) == CASE c = "x" -> "X" [] c = "l" -> "L" [] c = "s" -> "S"
    IN  {w \in [1..Len(word) -> {"x", "X", "l", "L", "s", "S"}] :
            \A i \in 1..Len(word) : w[i] \in {word[i], upper(word[i])}}

\* The name is YYYY-MM-DD_<suffix>.(xlsx|xls) for the suffix of the kind.
FollowsPattern(name, type) ==
    /\ Len(name) > 10
    /\ HasDateShape(SubSeq(name, 1, 10))
    /\ \E e \in CaseVariants(xlsx) \cup CaseVariants(xls) :
          SubSeq(name, 11, Len(name)) =
              <<"_">> \o (IF type = "visit" THEN visitSuffix ELSE feverSuffix) \o <<".">> \o e

Classification(name, type) ==
    IF ~FollowsPattern(name, type) THEN "pattern"
    ELSE IF ~IsCalendarDate(SubSeq(name, 1, 10)) THEN "date"
    ELSE ""

Parsed(i) == parsedFiles[i] # Unset

CurrentUpload == IF uploadType = "visit" THEN visitUpload ELSE feverUpload

Finished == uploadPc = "returned" /\ fileList # <<>>

\* C7: every parsed file has exactly one classification: 'pattern' when its
\* name is not YYYY-MM-DD_<suffix>.(xlsx|xls) for the suffix of the dataset
\* kind (the extension in any case), else 'date' when the date part is not a
\* real calendar date, else none, and then the extracted date is the date
\* part and a real calendar date; report_<visit suffix>.xlsx is 'pattern'
\* and 2024-02-30_<visit suffix>.xlsx is 'date'.
C7_NameClassification ==
    /\ \A i \in 1..Len(parsedFiles) : Parsed(i) =>
          LET file == parsedFiles[i]
              name == fileList[i].name
          IN  /\ file.name = name
              /\ file.nameIssue \in {"pattern", "date", ""}
              /\ file.nameIssue = Classification(name, uploadType)
              /\ file.nameIssue = "pattern" <=> file.dateString = Null
              /\ file.nameIssue = "" =>
                    /\ file.dateString = Some(SubSeq(name, 1, 10))
                    /\ IsCalendarDate(file.dateString.v)
              /\ (uploadType = "visit" /\ name = ThreeKinds[1].name) =>
                    file.nameIssue = "pattern"
              /\ (uploadType = "visit" /\ name = ThreeKinds[2].name) =>
                    file.nameIssue = "date"
    /\ Finished =>
          /\ Len(CurrentUpload.files) = Len(parsedFiles)
          /\ Elements(CurrentUpload.files) = Elements(parsedFiles)

\* One batch holds a name of each classification; the valid one has an
\* upper-case extension.
C7_Witness ==
    /\ Finished
    /\ uploadType = "visit"
    /\ fileList = ThreeKinds
    /\ parsedFiles[1].nameIssue = "pattern"
    /\ parsedFiles[2].nameIssue = "date"
    /\ parsedFiles[3].nameIssue = ""
    /\ parsedFiles[3].dateString = Some(DateText(2024, 6, 12))

\* A name of the other dataset kind is 'pattern'.
C7_OtherKindWitness ==
    /\ uploadType = "fever"
    /\ Len(fileList) = 1
    /\ Parsed(1)
    /\ fileList[1].name = FileName(DateText(2024, 6, 10), visitSuffix, xlsx)
    /\ parsedFiles[1].nameIssue = "pattern"

\* The files of the batch without name issue whose extracted date is d
FilesOfDate(d) ==
    {i \in 1..Len(fileList) :
        /\ Classification(fileList[i].name, uploadType) = ""
        /\ SubSeq(fileList[i].name, 1, 10) = d}

DuplicatedDates ==
    {d \in {SubSeq(fileList[i].name, 1, 10) :
                i \in {j \in 1..Len(fileList) : Len(fileList[j].name) >= 10}} :
        Cardinality(FilesOfDate(d)) >= 2}

RECURSIVE AgesBefore(_)
AgesBefore(i) == IF i = 1 THEN 0 ELSE AgesBefore(i - 1) + Len(parsedFiles[i - 1].ages)

\* C8: when two or more files of a finished batch have the same valid date
\* and no name issue, the warnings hold a duplicate-dates warning that lists
\* that date with the number of its files, and the aggregated age list is
\* the ages of every file of the batch, one file after the other: its
\* length is the sum of the files' age-list lengths.
C8_DuplicatesWarnedAndKept ==
    (Finished /\ DuplicatedDates # {}) =>
        /\ \A d \in DuplicatedDates :
              \E k \in 1..Len(CurrentUpload.warnings) :
                  /\ CurrentUpload.warnings[k].kind = "duplicate"
                  /\ \E e \in 1..Len(CurrentUpload.warnings[k].items) :
                        CurrentUpload.warnings[k].items[e] =
                            [date |-> d, count |-> Cardinality(FilesOfDate(d))]
        /\ Len(CurrentUpload.ages) = AgesBefore(Len(parsedFiles) + 1)
        /\ \A i \in 1..Len(parsedFiles) :
              SubSeq(CurrentUpload.ages, AgesBefore(i) + 1, AgesBefore(i + 1)) =
                  parsedFiles[i].ages

\* Two files of 2024-06-10 with the ages 3, 70 and 10: one warning entry
\* with the count 2, and all three ages.
C8_Witness ==
    /\ Finished
    /\ uploadType = "visit"
    /\ Len(fileList) = 2
    /\ fileList[1].name = FileName(DateText(2024, 6, 10), visitSuffix, xlsx)
    /\ fileList[2].name = FileName(DateText(2024, 6, 10), visitSuffix, xls)
    /\ visitUpload.ages = <<3, 70, 10>>
    /\ \E k \in 1..Len(visitUpload.warnings) :
          /\ visitUpload.warnings[k].kind = "duplicate"
          /\ visitUpload.warnings[k].items = <<[date |-> DateText(2024, 6, 10), count |-> 2]>>

\* Three files of one date, one of them unreadable, beside a file of
\* another date.
C8_ThreeFilesWitness ==
    /\ Finished
    /\ fileList = ThreeOfOneDate
    /\ uploadType = "visit"
    /\ visitUpload.ages = <<1, 2, 1, 3>>
    /\ \E k \in 1..Len(visitUpload.warnings) :
          /\ visitUpload.warnings[k].kind = "duplicate"
          /\ visitUpload.warnings[k].items = <<[date |-> DateText(2024, 6, 10), count |-> 3]>>

-----------------------------------------------------------------------------
(* The scheduled job of weekly-report.gs                                   *)
(* The script runs in the time zone of CONFIG.timezone, so a Date is the   *)
(* day number of its day there; the time of day, which setDate keeps, is   *)
(* not modelled.                                                           *)

\* Utilities.formatDate(date, CONFIG.timezone, 'yyyy-MM-dd')
formatDate_gs(date) ==
    DateText(getFullYear(date), getMonth(date) + 1, getDate(date))

\* getPreviousWeekRange: { start, end, days } of a start
rangeOf(start) ==
    [ start |-> start,
      end |-> setDate(start, getDate(start) + 5),
      days |-> [i \in 1..6 |-> setDate(start, getDate(start) + (i - 1))] ]

\* getPreviousWeekRange: currentWeekMonday of now
currentWeekMonday(nowDate) ==
    setDate(nowDate, getDate(nowDate) - ((getDay(nowDate) + 6) % 7))

\* The start is the Monday of the current week (the step of 7 days back is
\* left out).
previousStart_SameWeek(monday) == monday

\* getPreviousWeekRange: start of currentWeekMonday
previousStart(monday) == setDate(monday, getDate(monday) - 7)

\* weekly-report.gs getPreviousWeekRange, with now = new Date()
getPreviousWeekRange(nowDate) == rangeOf(previousStart(currentWeekMonday(nowDate)))

\* CONFIG.fileSuffix
fileSuffix_gs(kind) ==
    (IF kind = "visit" THEN visitSuffix ELSE feverSuffix) \o <<".", "x", "l", "s", "x">>

\* `${dateLabel}_${CONFIG.fileSuffix.visit}`
fileNameOf(dateLabel, kind) == dateLabel \o <<"_">> \o fileSuffix_gs(kind)

\* findFileByName: the file of that name in the folder, or Null
findFileByName(folder, fileName) ==
    IF \E f \in folder : f.name = fileName
    THEN (CHOOSE f \in folder : f.name = fileName).content
    ELSE Null

\* aggregateWeek: what one file name adds to the ages of its kind.  A file
\* that Drive.Files.copy or SpreadsheetApp.openById cannot convert or open
\* makes extractAgesFromExcel throw.
agesOfFile(file) ==
    IF file = Null THEN <<>> ELSE extractAgesFromExcel(file.sheets).ages

fileThrows(file) == file # Null /\ file.k = "unreadable"

\* aggregateWeek: the ages of one kind, day after day
RECURSIVE agesOfDays(_, _, _)
agesOfDays(folder, labels, kind) ==
    IF labels = <<>> THEN <<>>
    ELSE agesOfFile(findFileByName(folder, fileNameOf(Head(labels), kind)))
            \o agesOfDays(folder, Tail(labels), kind)

\* Only a missing visit file marks its day as missing.
missingLabels_VisitOnly(folder, labels) ==
    SelectSeq(labels, LAMBDA d : findFileByName(folder, fileNameOf(d, "visit")) = Null)

\* aggregateWeek: the labels added to the Set missingDays, in order
missingLabels(folder, labels) ==
    SelectSeq(labels, LAMBDA d :
        \/ findFileByName(folder, fileNameOf(d, "visit")) = Null
        \/ findFileByName(folder, fileNameOf(d, "fever")) = Null)

\* aggregateWeek throws: extractAgesFromExcel throws on a file that was found
aggregateThrows(folder, labels) ==
    \E i \in 1..Len(labels), kind \in {"visit", "fever"} :
        fileThrows(findFileByName(folder, fileNameOf(labels[i], kind)))

\* aggregateWeek: the returned record, from the ages and the labels on
recordOf(range, counts, missing, created) ==
    [ weekStart |-> formatDate_gs(range.start),
      weekEnd |-> formatDate_gs(range.end),
      totalVisit |-> counts.totalVisit,
      totalFever |-> counts.totalFever,
      overallRatio |-> counts.overallRatio,
      combinedGroups |-> counts.combinedGroups,
      missingDays |-> sortStrings(unique(missing)),
      createdAt |-> created ]

labelsOf(range) == [i \in 1..Len(range.days) |-> formatDate_gs(range.days[i])]

aggregateLabels(range, folder, labels, created) ==
    recordOf(range,
             aggregateCounts(agesOfDays(folder, labels, "visit"),
                             agesOfDays(folder, labels, "fever")),
             missingLabels(folder, labels), created)

\* weekly-report.gs aggregateWeek, when it returns
aggregateWeek(range, folder, created) ==
    aggregateLabels(range, folder, labelsOf(range), created)


\* JSON.stringify of an array of strings that need no escape
RECURSIVE joinQuoted(_)
joinQuoted(list) ==
    IF list = <<>> THEN <<>>
    ELSE <<"\"">> \o Head(list) \o <<"\"">>
            \o (IF Len(list) > 1 THEN <<",">> ELSE <<>>) \o joinQuoted(Tail(list))

stringify(list) == <<"[">> \o joinQuoted(list) \o <<"]">>

\* JSON.stringify(result.combinedGroups): the text is kept as the value it
\* is the text of
JsonText(value) == [t |-> "json", of |-> value]

\* A date cell of the sheet; getValues returns it as a Date object
DateCell(date) == [t |-> "date", date |-> date]

\* CONFIG.headers, one cell per header
headers ==
    << StringCell(<<"week_start">>), StringCell(<<"week_end">>),
       StringCell(<<"total_visit">>), StringCell(<<"total_fever">>),
       StringCell(<<"overall_ratio">>), StringCell(<<"groups_json">>),
       StringCell(<<"missing_days">>), StringCell(<<"created_at">>) >>

\* CONFIG.headers.indexOf('week_start'), counted from 1
weekStartIndex == 1

\* upsertReportRow: rowValues
rowValues(result) ==
    << StringCell(result.weekStart), StringCell(result.weekEnd),
       NumberCell(result.totalVisit, 1), NumberCell(result.totalFever, 1),
       NumberCell(result.overallRatio.num, result.overallRatio.den),
       JsonText(result.combinedGroups),
       StringCell(stringify(result.missingDays)),
       StringCell(result.createdAt) >>

\* What the sheet keeps of a written value: a column of automatic format
\* (the format of a sheet made by insertSheet) turns the text of a date into
\* a date cell, a column of plain-text format keeps the text.
storedCell(format, value) ==
    IF /\ format = "automatic" /\ value.t = "string"
       /\ parseDateString(value.s) # Null
    THEN DateCell(parseDateString(value.s))
    ELSE value

storedRow(format, row) == [i \in 1..Len(row) |-> storedCell(format, row[i])]

\* sheet.getDataRange().getValues(): an empty sheet gives one empty cell
getValues(sheet) ==
    IF sheet.rows = <<>> THEN << <<StringCell(<<>>)>> >> ELSE sheet.rows

\* The loop does not break: the last row of the week is the target.
findTargetRow_Last(data, i, weekStart) ==
    LET hits == {j \in i..Len(data) : data[j][weekStartIndex] = StringCell(weekStart)}
    IN  IF hits = {} THEN -1 ELSE Max(hits)

\* upsertReportRow: the loop over data, from index i (counted from 1) on;
\* targetRow, or -1
RECURSIVE findTargetRow(_, _, _)
findTargetRow(data, i, weekStart) ==
    IF i > Len(data) THEN -1
    ELSE IF data[i][weekStartIndex] = StringCell(weekStart) THEN i
    ELSE findTargetRow(data, i + 1, weekStart)

\* sheet.getRange(row, 1, 1, n).setValues([values]) and sheet.appendRow
setRow(sheet, row, values) ==
    [sheet EXCEPT !.rows =
        IF row <= Len(@) THEN [@ EXCEPT ![row] = storedRow(sheet.format, values)]
        ELSE Append(@, storedRow(sheet.format, values))]

appendRow(sheet, values) ==
    [sheet EXCEPT !.rows = Append(@, storedRow(sheet.format, values))]

\* upsertReportRow: the header row is written unless it is there
withHeaders(sheet, data) ==
    IF data = <<>> THEN appendRow(sheet, headers)
    ELSE IF data[1] # headers THEN setRow(sheet, 1, headers)
    ELSE sheet

writeRow(sheet, targetRow, values) ==
    IF targetRow = -1 THEN appendRow(sheet, values)
    ELSE setRow(sheet, targetRow, values)

\* weekly-report.gs upsertReportRow
upsertReportRow(sheet, result) ==
    writeRow(withHeaders(sheet, getValues(sheet)),
             findTargetRow(getValues(sheet), 2, result.weekStart),
             rowValues(result))


-----------------------------------------------------------------------------
(* SpecJob: one run of runWeeklyReport; SpecRuns: runs one after another   *)

MaxRuns == 2

\* runWeeklyReport: const range = getPreviousWeekRange()
GetPreviousWeekRange ==
    /\ jobPc = "idle"
    /\ jobRange' = getPreviousWeekRange(now)
    /\ jobPc' = "range"
    /\ UNCHANGED <<now, driveFolder, reportSheet, jobRecord, runsLeft, persistedWeeks,
                   notJobVars>>

\* runWeeklyReport: const aggregated = aggregateWeek(range)
AggregateWeek ==
    /\ jobPc = "range"
    /\ ~aggregateThrows(driveFolder, labelsOf(jobRange))
    /\ jobRecord' = aggregateWeek(jobRange, driveFolder, formatDate_gs(now))
    /\ jobPc' = "aggregated"
    /\ UNCHANGED <<now, driveFolder, reportSheet, jobRange, runsLeft, persistedWeeks,
                   notJobVars>>

\* runWeeklyReport: extractAgesFromExcel throws inside aggregateWeek; nothing
\* catches it, so the run ends there
AggregateWeekThrows ==
    /\ jobPc = "range"
    /\ aggregateThrows(driveFolder, labelsOf(jobRange))
    /\ jobPc' = "failed"
    /\ UNCHANGED <<now, driveFolder, reportSheet, jobRange, jobRecord, runsLeft,
                   persistedWeeks, notJobVars>>

\* runWeeklyReport: upsertReportRow(aggregated)
UpsertReportRow ==
    /\ jobPc = "aggregated"
    /\ reportSheet' = upsertReportRow(reportSheet, jobRecord)
    /\ persistedWeeks' = persistedWeeks \cup {jobRecord.weekStart}
    /\ jobPc' = "done"
    /\ UNCHANGED <<now, driveFolder, jobRange, jobRecord, runsLeft, notJobVars>>

\* The six days Monday..Saturday of five weeks: two of June 2024, the last
\* week of 2023, the week of 29 February 2024, and a week of December 2024.
Week0610 == [i \in 1..6 |-> DateText(2024, 6, 9 + i)]
Week0617 == [i \in 1..6 |-> DateText(2024, 6, 16 + i)]
Week1225 == [i \in 1..6 |-> DateText(2023, 12, 24 + i)]
Week0226 ==
    << DateText(2024, 2, 26), DateText(2024, 2, 27), DateText(2024, 2, 28),
       DateText(2024, 2, 29), DateText(2024, 3, 1), DateText(2024, 3, 2) >>
Week1223 == [i \in 1..6 |-> DateText(2024, 12, 22 + i)]

WeekPool == {Week0610, Week0617, Week1225, Week0226, Week1223}

Kinds == {"visit", "fever"}
DayFiles == (1..6) \X Kinds

KindSuffix(kind) == IF kind = "visit" THEN visitSuffix ELSE feverSuffix

VisitBook ==
    Workbook(<< Sheet("A", <<NumberCell(3, 1), StringCell(<<"1", "2", "se">>),
                            NumberCell(70, 1)>>) >>)
FeverBook ==
    Workbook(<< Sheet("A", <<NullCell>>), Sheet("B", <<NumberCell(10, 1)>>) >>)

\* The folder of a week: a file for every day and kind, but for the absent
\* ones; the unreadable ones cannot be converted.
FolderOf(week, absent, unreadable) ==
    { File(FileName(week[df[1]], KindSuffix(df[2]), xlsx),
           IF df \in unreadable THEN Unreadable
           ELSE IF df[2] = "visit" THEN VisitBook ELSE FeverBook)
        : df \in DayFiles \ absent }

\* Files whose names are not the names the job asks for
Strays(week) ==
    { File(FileName(week[1], visitSuffix, <<"X", "L", "S", "X">>), VisitBook),
      File(FileName(week[2], feverSuffix, xls), Unreadable) }

FolderPatterns ==
    { <<{}, {}>>,
      <<{<<3, "visit">>}, {}>>,
      <<{<<3, "fever">>}, {}>>,
      <<{<<5, "visit">>, <<2, "visit">>, <<2, "fever">>, <<1, "fever">>}, {}>>,
      <<DayFiles, {}>>,
      <<DayFiles \ {<<6, "visit">>, <<6, "fever">>}, {}>>,
      <<{}, {<<4, "visit">>}>>,
      <<{<<1, "visit">>, <<2, "fever">>}, {<<6, "fever">>}>> }

\* A document that can be read and holds no valid age in column D
EmptyBook ==
    Workbook(<< Sheet("A", <<NullCell, StringCell(<<"se">>), NumberCell(121, 1)>>) >>)

\* The folder of a week in which the file of one day and kind holds no
\* valid age
FolderWithEmptyBook(week, day, kind) ==
    FolderOf(week, {<<day, kind>>}, {})
        \cup {File(FileName(week[day], KindSuffix(kind), xlsx), EmptyBook)}

FolderPool ==
    { FolderOf(w, p[1], p[2]) : w \in WeekPool, p \in FolderPatterns }
    \cup { FolderOf(Week0610, {<<1, "visit">>, <<2, "fever">>}, {}) \cup Strays(Week0610) }
    \cup { FolderWithEmptyBook(Week0610, 3, "visit"),
           FolderWithEmptyBook(Week0610, 5, "fever") }

\* The days the job runs on: every day of a week of June 2024, the first
\* days of 2024 and of 2025, the Monday after 29 February 2024, and the end
\* of a month.
JobNowPool ==
    { makeDay(2024, 5, d) : d \in 17..24 }
    \cup { makeDay(2024, 0, 1), makeDay(2025, 0, 1), makeDay(2024, 2, 4),
           makeDay(2024, 2, 10), makeDay(2024, 5, 30) }

SheetFormats == {"plain", "automatic"}

InitJob ==
    /\ now \in JobNowPool
    /\ driveFolder \in FolderPool
    /\ reportSheet \in {[format |-> f, rows |-> <<>>] : f \in SheetFormats}
    /\ jobPc = "idle" /\ jobRange = Unset /\ jobRecord = Unset
    /\ runsLeft = 0 /\ persistedWeeks = {}
    /\ NotJobIdle

NextJob ==
    \/ GetPreviousWeekRange
    \/ AggregateWeek
    \/ AggregateWeekThrows
    \/ UpsertReportRow

SpecJob == InitJob /\ [][NextJob]_vars


\* The trigger fires again, on the same day or later, over the folder as it
\* is then
RunNowPool ==
    { makeDay(2024, 5, 18), makeDay(2024, 5, 20), makeDay(2024, 5, 25),
      makeDay(2024, 6, 2) }

RunFolderPool ==
    { FolderOf(Week0610, {}, {}) \cup FolderOf(Week0617, {<<3, "visit">>}, {}),
      FolderOf(Week0610, {<<2, "fever">>}, {})
          \cup FolderOf(Week0617, {}, {<<1, "visit">>}),
      {} }

RunWeeklyReport ==
    /\ jobPc \in {"done", "failed"}
    /\ runsLeft > 0
    /\ runsLeft' = runsLeft - 1
    /\ \E later \in RunNowPool :
          /\ later.days >= now.days
          /\ now' = later
    /\ driveFolder' \in RunFolderPool
    /\ jobPc' = "idle" /\ jobRange' = Unset /\ jobRecord' = Unset
    /\ UNCHANGED <<reportSheet, persistedWeeks, notJobVars>>

InitRuns ==
    /\ now \in RunNowPool
    /\ driveFolder \in RunFolderPool
    /\ reportSheet \in {[format |-> f, rows |-> <<>>] : f \in SheetFormats}
    /\ jobPc = "idle" /\ jobRange = Unset /\ jobRecord = Unset
    /\ runsLeft = MaxRuns - 1 /\ persistedWeeks = {}
    /\ NotJobIdle

NextRuns == NextJob \/ RunWeeklyReport

SpecRuns == InitRuns /\ [][NextRuns]_vars

-----------------------------------------------------------------------------
(* The report query handler: the cells of the sheet                        *)

ArrayCell(items) == [t |-> "array", items |-> items]

Throws == [k |-> "throws"]
ParsedAs(value) == [k |-> "parsed", v |-> value]

\* The first index from i on that holds no white space, or Len(t) + 1
skipWhite(t, i) ==
    IF \E j \in i..Len(t) : t[j] \notin WhiteChars
    THEN Min({j \in i..Len(t) : t[j] \notin WhiteChars})
    ELSE Len(t) + 1

\* JSON.parse of a text that starts with "[": an array of strings without
\* escapes, with white space between the tokens; every other text of the
\* model is no JSON text, and JSON.parse throws.
RECURSIVE parseItemAt(_, _, _)
RECURSIVE parseAfterItem(_, _, _)
parseStringAt(t, s, closes, acc) ==
    IF closes = {} THEN Throws
    ELSE parseAfterItem(t, skipWhite(t, Min(closes) + 1),
                        Append(acc, SubSeq(t, s + 1, Min(closes) - 1)))

parseItemAt(t, s, acc) ==
    IF s > Len(t) THEN Throws
    ELSE IF t[s] # "\"" THEN Throws
    ELSE parseStringAt(t, s, {j \in (s + 1)..Len(t) : t[j] = "\""}, acc)

parseAfterItem(t, k, acc) ==
    IF k > Len(t) THEN Throws
    ELSE IF t[k] = "," THEN parseItemAt(t, skipWhite(t, k + 1), acc)
    ELSE IF t[k] = "]" /\ k = Len(t) THEN ParsedAs(acc)
    ELSE Throws

parseArrayFrom(t, s) ==
    IF s = Len(t) /\ t[s] = "]" THEN ParsedAs(<<>>) ELSE parseItemAt(t, s, <<>>)

jsonParse(t) == parseArrayFrom(t, skipWhite(t, 2))

\* The items are kept as they stand between the commas.
splitList_Untrimmed(text) == SelectSeq(split(text, ","), LAMBDA item : item # <<>>)

\* text.split(',').map((item) => item.trim()).filter(Boolean)
splitList(text) ==
    SelectSeq([i \in 1..Len(split(text, ",")) |-> Trim(split(text, ",")[i])],
              LAMBDA item : item # <<>>)

\* parseMissingDays: the text that starts with "["
parseBracketed(parsed) == IF parsed = Throws THEN <<>> ELSE parsed.v

\* parseMissingDays, from the trimmed text on
parseMissingText(text) ==
    IF text = <<>> THEN <<>>
    ELSE IF text[1] = "[" THEN parseBracketed(jsonParse(text))
    ELSE splitList(text)

\* String(value) of a cell that is a string or a whole number >= 0
stringOf(value) ==
    IF value.t = "string" THEN value.s ELSE numberToString(value.num \div value.den)

\* !value
falsyCell(value) ==
    \/ value.t \in {"undefined", "null"}
    \/ value.t = "string" /\ value.s = <<>>
    \/ value.t = "number" /\ value.num = 0

\* App.jsx (api) parseMissingDays
parseMissingDays(value) ==
    IF falsyCell(value) THEN <<>>
    ELSE IF value.t = "array" THEN value.items
    ELSE parseMissingText(Trim(stringOf(value)))

\* serialToKstDate and the UTC getters: the whole minutes since the serial
\* day 0 (1899-12-30), nine hours on
minutesOfSerial(x) == (1440 * x.num + 540 * x.den) \div x.den

\* The day number of 1970-01-01 counted from 1899-12-30
EXCEL_EPOCH_DAYS == 25569

\* formatDateParts and the template of normalizeDateCell: the year as it is,
\* month and day padded to two digits
datePartsText(civil) ==
    numberToString(civil.year) \o <<"-">> \o padStart2(numberToString(civil.month))
        \o <<"-">> \o padStart2(numberToString(civil.day))

timeText(minuteOfDay) ==
    <<" ">> \o padStart2(numberToString(minuteOfDay \div 60)) \o <<":">>
        \o padStart2(numberToString(minuteOfDay % 60))

\* normalizeDateCell of a finite number
normalizeSerial(minutes, withTime) ==
    datePartsText(CivilFromDays(minutes \div 1440 - EXCEL_EPOCH_DAYS))
        \o (IF withTime THEN timeText(minutes % 1440) ELSE <<>>)

\* /^\d+(\.\d+)?$/.test(trimmed)
isNumericText(t) ==
    /\ t # <<>>
    /\ \A i \in 1..Len(t) : IsDigit(t[i]) \/ t[i] = "."
    /\ Cardinality({i \in 1..Len(t) : t[i] = "."}) <= 1
    /\ t[1] # "." /\ t[Len(t)] # "."

\* normalizeDateCell of a trimmed string
normalizeText(trimmed, withTime) ==
    IF isNumericText(trimmed)
    THEN normalizeSerial(minutesOfSerial(ToNumber(trimmed)), withTime)
    ELSE trimmed

\* App.jsx (api) normalizeDateCell
normalizeDateCell(value, withTime) ==
    IF value.t = "number" THEN normalizeSerial(minutesOfSerial(value), withTime)
    ELSE IF value.t = "string" THEN normalizeText(Trim(value.s), withTime)
    ELSE <<>>

\* parseReports: headerIndex[key], counted from 1, or 0 when no header of
\* the row is the key (a later header of the same name wins)
headerIndex(headerRow, key) ==
    IF \E i \in 1..Len(headerRow) : headerRow[i].t = "string" /\ Trim(headerRow[i].s) = key
    THEN Max({i \in 1..Len(headerRow) :
                  headerRow[i].t = "string" /\ Trim(headerRow[i].s) = key})
    ELSE 0

\* row[index]
cellAt(row, index) == IF index <= Len(row) THEN row[index] ELSE UndefinedCell

\* parseReports getCell
getCell(row, headerRow, key, fallbackIndex) ==
    IF headerIndex(headerRow, key) # 0 THEN cellAt(row, headerIndex(headerRow, key))
    ELSE cellAt(row, fallbackIndex + 1)

\* Number(cell)
numberOf(value) ==
    IF value.t = "number" THEN Num(value.num, value.den)
    ELSE IF value.t = "string" THEN ToNumber(value.s)
    ELSE IF value.t = "null" THEN Num(0, 1)
    ELSE NaN

\* x || 0
orZero(x) == IF x = NaN THEN Num(0, 1) ELSE x

\* parseReports: overallRatio
overallRatioOf(value, totalVisit, totalFever) ==
    IF value # NaN THEN value
    ELSE IF totalVisit.num # 0
         THEN Num(totalFever.num * totalVisit.den * 100, totalFever.den * totalVisit.num)
         ELSE Num(0, 1)

\* parseReports: groups; the text of JSON.stringify parses to its value, any
\* other text of the model is no JSON text
groupsOf(value) ==
    IF value.t = "json" THEN value.of
    ELSE IF value.t = "array" THEN value.items
    ELSE <<>>

\* parseReports: the report of a row
reportOf(row, headerRow) ==
    [ weekStart |-> normalizeDateCell(getCell(row, headerRow, <<"week_start">>, 0), FALSE),
      weekEnd |-> normalizeDateCell(getCell(row, headerRow, <<"week_end">>, 1), FALSE),
      totalVisit |-> orZero(numberOf(getCell(row, headerRow, <<"total_visit">>, 2))),
      totalFever |-> orZero(numberOf(getCell(row, headerRow, <<"total_fever">>, 3))),
      overallRatio |->
          overallRatioOf(numberOf(getCell(row, headerRow, <<"overall_ratio">>, 4)),
                         orZero(numberOf(getCell(row, headerRow, <<"total_visit">>, 2))),
                         orZero(numberOf(getCell(row, headerRow, <<"total_fever">>, 3)))),
      groups |-> groupsOf(getCell(row, headerRow, <<"groups_json">>, 5)),
      missingDays |-> parseMissingDays(getCell(row, headerRow, <<"missing_days">>, 6)),
      createdAt |-> normalizeDateCell(getCell(row, headerRow, <<"created_at">>, 7), TRUE) ]

\* App.jsx (api) parseReports
parseReports(values) ==
    IF values = <<>> THEN <<>>
    ELSE [i \in 1..(Len(values) - 1) |-> reportOf(values[i + 1], values[1])]

\* The reports are ordered by weekStart ascending.
compareReports_Ascending(a, b) == localeCompare(a.weekStart, b.weekStart)

\* handler: the comparator of reports.sort
compareReports(a, b) == localeCompare(b.weekStart, a.weekStart)

\* reports.sort(compareReports): a stable sort
insertReport(init, last, after) ==
    IF after = {} THEN Append(init, last)
    ELSE SubSeq(init, 1, Min(after) - 1) \o <<last>> \o SubSeq(init, Min(after), Len(init))

RECURSIVE sortReports(_)
sortedInto(init, last) ==
    insertReport(init, last, {i \in 1..Len(init) : compareReports(init[i], last) > 0})

sortReports(list) ==
    IF list = <<>> THEN <<>>
    ELSE sortedInto(sortReports(SubSeq(list, 1, Len(list) - 1)), list[Len(list)])

\* handler: parseReports(values).filter((report) => report.weekStart), sorted
weeksOf(values) ==
    sortReports(SelectSeq(parseReports(values), LAMBDA report : report.weekStart # <<>>))

\* One response of status and body
Response(status, body) == [status |-> status, body |-> body]

\* What becomes of an error thrown inside the try block
Outcome(sent, thrown) == [responses |-> sent, escaped |-> thrown]

\* The error is thrown on to the caller of handler.
caught_Escapes(message) == Outcome(<<>>, TRUE)

\* handler: catch (error) { response.status(500).json({ error: error.message }) }
caught(message) == Outcome(<<Response(500, [error |-> message])>>, FALSE)

MISSING_ENV == "Missing GOOGLE_SERVICE_ACCOUNT_EMAIL, GOOGLE_PRIVATE_KEY, or GOOGLE_SHEETS_ID"

\* getSheetId: the id of the environment, or the one found in the script file
sheetIdFound(e) == e.sheetsId \/ e.scriptId

\* handler, up to the first upstream call
handlerStart(e) ==
    IF ~e.clientEmail \/ ~e.privateKey \/ ~sheetIdFound(e)
    THEN Outcome(<<Response(500, [error |-> MISSING_ENV])>>, FALSE)
    ELSE Outcome(<<>>, FALSE)

\* fetchAccessToken: throws on a response that is not ok, and when fetch
\* itself rejects
tokenOutcome(answer) ==
    IF answer = "ok" THEN Outcome(<<>>, FALSE)
    ELSE IF answer = "status" THEN caught("Token request failed")
    ELSE caught("fetch failed")

\* data.values || []
valuesOf(data) == IF data = Undefined THEN <<>> ELSE data.v

\* fetchSheetValues and the rest of handler
sheetOutcome(answer, data) ==
    IF answer = "ok" THEN Outcome(<<Response(200, [weeks |-> weeksOf(valuesOf(data))])>>, FALSE)
    ELSE IF answer = "status" THEN caught("Sheets API failed")
    ELSE caught("fetch failed")

-----------------------------------------------------------------------------
(* SpecHandler: one request to the report query handler                    *)

MaxSheetRows == 2

\* The step of handler that ends with an outcome: the responses are sent,
\* and handler goes on only when nothing was sent or thrown
HandlerStep(outcome, next) ==
    /\ responses' = responses \o outcome.responses
    /\ escaped' = outcome.escaped
    /\ handlerPc' = IF outcome.responses = <<>> /\ ~outcome.escaped THEN next ELSE "done"
    /\ UNCHANGED <<env, upstream, notHandlerVars>>

\* handler: the environment is read and checked
HandlerStart ==
    /\ handlerPc = "start"
    /\ HandlerStep(handlerStart(env), "token")

\* handler: await fetchAccessToken(...)
FetchAccessToken ==
    /\ handlerPc = "token"
    /\ HandlerStep(tokenOutcome(upstream.token), "sheet")

\* handler: await fetchSheetValues(...), parseReports, sort and the response
FetchSheetValues ==
    /\ handlerPc = "sheet"
    /\ HandlerStep(sheetOutcome(upstream.sheet, upstream.data), "done")

Env(email, key, id, script) ==
    [clientEmail |-> email, privateKey |-> key, sheetsId |-> id, scriptId |-> script]

EnvPool ==
    { Env(TRUE, TRUE, TRUE, FALSE), Env(TRUE, TRUE, FALSE, TRUE),
      Env(FALSE, TRUE, TRUE, TRUE), Env(TRUE, FALSE, TRUE, TRUE),
      Env(TRUE, TRUE, FALSE, FALSE) }

\* The serial number of a day of June 2024 (2024-06-10 is 45453)
JuneSerial(day) == 45443 + day

\* A row as the Sheets API gives it (UNFORMATTED_VALUE): the week as text
\* or as serial numbers, its totals, and the missing days
TextRow(monday, visit, fever, missing) ==
    << StringCell(DateText(2024, 6, monday)), StringCell(DateText(2024, 6, monday + 5)),
       NumberCell(visit, 1), NumberCell(fever, 1),
       NumberCell(ratioOf(fever, visit).num, ratioOf(fever, visit).den),
       JsonText(aggregateCounts(<<>>, <<>>).combinedGroups),
       StringCell(stringify(missing)),
       StringCell(DateText(2024, 6, monday + 8) \o <<" ", "0", "1", ":", "0", "0">>) >>

SerialRow(monday, visit, fever, missing) ==
    [TextRow(monday, visit, fever, missing) EXCEPT
        ![1] = NumberCell(JuneSerial(monday), 1),
        ![2] = NumberCell(JuneSerial(monday + 5), 1),
        ![8] = NumberCell(JuneSerial(monday + 8) * 24 + 1, 24)]

\* Rows of three weeks, as text and as serial numbers; a row without a week
\* (an empty text, blanks, no cell at all); a week between blanks; a week as
\* the text of a serial number; a row of the week alone.
SheetRowPool ==
    { TextRow(10, 18, 5, <<DateText(2024, 6, 11)>>),
      SerialRow(17, 12, 0, <<>>),
      SerialRow(10, 3, 3, <<>>),
      [TextRow(3, 0, 0, <<>>) EXCEPT ![1] = StringCell(<<>>)],
      [TextRow(3, 1, 1, <<>>) EXCEPT ![1] = StringCell(<<" ", " ">>)],
      <<>>,
      [TextRow(3, 7, 2, <<>>) EXCEPT
          ![1] = StringCell(<<" ">> \o DateText(2024, 6, 3) \o <<" ">>)],
      [TextRow(24, 7, 2, <<>>) EXCEPT
          ![1] = StringCell(numberToString(JuneSerial(24)))],
      << StringCell(DateText(2024, 6, 17)) >> }

\* The header row of the job, a header row of other names, and the header
\* row with the first two names exchanged
HeaderPool ==
    { headers,
      [i \in 1..8 |-> StringCell(<<"column">>)],
      [headers EXCEPT ![1] = headers[2], ![2] = headers[1]] }

SheetValuesPool ==
    { <<h>> \o rows : h \in {headers}, rows \in ListsUpTo(SheetRowPool, MaxSheetRows) }
    \cup { <<h, TextRow(10, 18, 5, <<>>), SerialRow(17, 12, 0, <<>>)>> : h \in HeaderPool }
    \cup { <<>> }

UpstreamPool ==
    { [token |-> t, sheet |-> s, data |-> Undefined] :
          t \in {"ok", "status", "rejects"}, s \in {"ok", "status", "rejects"} }
    \cup { [token |-> "ok", sheet |-> "ok", data |-> Some(v)] : v \in SheetValuesPool }

InitHandler ==
    /\ env \in EnvPool
    /\ upstream \in UpstreamPool
    /\ handlerPc = "start"
    /\ responses = <<>>
    /\ escaped = FALSE
    /\ NotHandlerIdle

NextHandler ==
    \/ HandlerStart
    \/ FetchAccessToken
    \/ FetchSheetValues

SpecHandler == InitHandler /\ [][NextHandler]_vars

-----------------------------------------------------------------------------
(* SpecLoad: the effect of App that loads the reports                      *)

\* The message of the Error thrown on a response that is not ok, and the
\* default of the catch block
LOAD_FAILED == "reports could not be loaded"

\* The four pieces of state the effect sets
LoadState(r, s, e, l) == [reports |-> r, selectedWeek |-> s, loadError |-> e, isLoading |-> l]

\* The state is set whether the component is mounted or not.
whenMounted_Always(mounted, next, current) == next

\* if (!isMounted) return / if (isMounted) { ... }: the setters are called
\* only while isMounted
whenMounted(mounted, next, current) == IF mounted THEN next ELSE current

\* The finally block is left out: isLoading stays as it was.
afterError_StillLoading(mounted, message, current) ==
    whenMounted(mounted,
                [current EXCEPT !.loadError = IF message # "" THEN message ELSE LOAD_FAILED],
                current)

\* loadReports: the catch block and the finally block
afterError(mounted, message, current) ==
    whenMounted(mounted,
                [whenMounted(mounted,
                             [current EXCEPT !.loadError =
                                  IF message # "" THEN message ELSE LOAD_FAILED],
                             current)
                    EXCEPT !.isLoading = FALSE],
                current)

\* Array.isArray(data.weeks) ? data.weeks : []
weeksOfData(data) == IF data = Undefined THEN <<>> ELSE data.v

\* previous || (weeks[0]?.weekStart ?? '')
selectedAfter(previous, weeks) ==
    IF previous # <<>> THEN previous
    ELSE IF weeks # <<>> THEN weeks[1].weekStart ELSE <<>>

\* loadReports: the rest of the try block, and the finally block
afterWeeks(mounted, weeks, current) ==
    whenMounted(mounted,
                [whenMounted(mounted,
                             [current EXCEPT !.reports = weeks,
                                             !.selectedWeek = selectedAfter(@, weeks)],
                             current)
                    EXCEPT !.isLoading = FALSE],
                current)

CurrentLoadState == LoadState(reports, selectedWeek, loadError, isLoading)

SetLoadState(next) ==
    /\ reports' = next.reports
    /\ selectedWeek' = next.selectedWeek
    /\ loadError' = next.loadError
    /\ isLoading' = next.isLoading

\* The cleanup of the effect
Unmount ==
    /\ isMounted
    /\ isMounted' = FALSE
    /\ UNCHANGED <<fetchResult, loadPc, reports, selectedWeek, loadError, isLoading,
                   notLoadVars>>

\* await fetch(REPORTS_ENDPOINT) settles
FetchSettles ==
    /\ loadPc = "fetching"
    /\ IF fetchResult.kind = "rejects"
       THEN /\ SetLoadState(afterError(isMounted, fetchResult.message, CurrentLoadState))
            /\ loadPc' = "done"
       ELSE IF fetchResult.kind = "notOk"
       THEN /\ SetLoadState(afterError(isMounted, LOAD_FAILED, CurrentLoadState))
            /\ loadPc' = "done"
       ELSE /\ loadPc' = "reading"
            /\ UNCHANGED <<reports, selectedWeek, loadError, isLoading>>
    /\ UNCHANGED <<isMounted, fetchResult, notLoadVars>>

\* await response.json() settles
JsonSettles ==
    /\ loadPc = "reading"
    /\ IF fetchResult.kind = "badJson"
       THEN SetLoadState(afterError(isMounted, fetchResult.message, CurrentLoadState))
       ELSE SetLoadState(afterWeeks(isMounted, weeksOfData(fetchResult.weeks),
                                    CurrentLoadState))
    /\ loadPc' = "done"
    /\ UNCHANGED <<isMounted, fetchResult, notLoadVars>>

\* The onChange of the week select: setSelectedWeek(event.target.value),
\* the value of one of the options, which are the weeks loaded
SelectWeek ==
    /\ isMounted /\ ~isLoading
    /\ \E i \in 1..Len(reports) : selectedWeek' = reports[i].weekStart
    /\ selectedWeek' # selectedWeek
    /\ UNCHANGED <<isMounted, fetchResult, loadPc, reports, loadError, isLoading,
                   notLoadVars>>

\* The last report is shown when none matches.
fallbackReport_Last(list) == list[Len(list)]

\* reports.find(...) || reports[0]: the second operand
fallbackReport(list) == list[1]

\* reports.find((report) => report.weekStart === selectedWeek), or Undefined
findReport(list, week) ==
    IF \E i \in 1..Len(list) : list[i].weekStart = week
    THEN Some(list[Min({i \in 1..Len(list) : list[i].weekStart = week})])
    ELSE Undefined

\* App.jsx selectedReport (useMemo): Null, or Some(report)
selectedReport(list, week) ==
    IF list = <<>> THEN Null
    ELSE IF findReport(list, week) # Undefined THEN findReport(list, week)
    ELSE Some(fallbackReport(list))

Week(monday) == [weekStart |-> DateText(2024, 6, monday)]

FetchResult(kind, message, weeks) == [kind |-> kind, message |-> message, weeks |-> weeks]

FetchResultPool ==
    { FetchResult("rejects", m, Undefined) : m \in {"Failed to fetch", ""} }
    \cup { FetchResult("notOk", "", Undefined),
           FetchResult("badJson", "Unexpected token", Undefined),
           FetchResult("ok", "", Undefined) }
    \cup { FetchResult("ok", "", Some(w)) :
              w \in { <<>>, <<Week(10)>>, <<Week(17), Week(10)>>, <<Week(24), Week(17)>>,
                      <<Week(24), Week(17), Week(10)>> } }

\* The state when the effect has run up to its first await: isLoading and
\* loadError are set while the component is mounted
InitLoad ==
    /\ isMounted = TRUE
    /\ fetchResult \in FetchResultPool
    /\ loadPc = "fetching"
    /\ reports = <<>>
    /\ selectedWeek \in {<<>>, DateText(2024, 6, 10)}
    /\ loadError = ""
    /\ isLoading = TRUE
    /\ NotLoadIdle

NextLoad ==
    \/ Unmount
    \/ FetchSettles
    \/ JsonSettles
    \/ SelectWeek

SpecLoad == InitLoad /\ [][NextLoad]_vars

-----------------------------------------------------------------------------
(* SpecCell: one cell of the column missing_days, read by parseMissingDays *)

\* The lists the job writes for a week: the days of the week with a file
\* absent, in ascending order
RECURSIVE SubLists(_)
SubLists(list) ==
    IF list = <<>> THEN {<<>>}
    ELSE LET rest == SubLists(Tail(list))
         IN  rest \cup {<<Head(list)>> \o r : r \in rest}

JobLists == SubLists(Week0610) \cup {Week0226}

\* Cells of rows written before the list was serialized as JSON
LegacyCells ==
    { StringCell(Week0610[i] \o <<",", " ">> \o Week0610[j]) : i, j \in {1, 2, 6} }
    \cup { StringCell(Week0610[1] \o <<",">> \o Week0610[3] \o <<" ", ",", " ", " ">>
                      \o Week0610[4] \o <<",">>),
           StringCell(<<" ">> \o Week0610[5] \o <<" ">>) }

EmptyCells == {UndefinedCell, NullCell, StringCell(<<>>), StringCell(<<" ", " ">>)}

\* Texts that start with "[" and are no JSON text
UnparsableCells ==
    { StringCell(<<"[">>),
      StringCell(<<"[", "\"">> \o Week0610[1]),
      StringCell(<<"[", "\"">> \o Week0610[1] \o <<"\"", ",", "]">>),
      StringCell(<<"[">> \o Week0610[1] \o <<"]">>),
      StringCell(<<"[", "\"">> \o Week0610[1] \o <<"\"", "]", "]">>),
      StringCell(<<"[", "\"">> \o Week0610[1] \o <<"\"", " ", "\"">> \o Week0610[2]
                     \o <<"\"", "]">>) }

OtherCells ==
    { NumberCell(0, 1), NumberCell(45453, 1), ArrayCell(<<Week0610[2]>>),
      StringCell(<<"[", " ", "\"">> \o Week0610[1] \o <<"\"", " ", ",", " ", "\"">>
                     \o Week0610[2] \o <<"\"", " ", "]">>),
      StringCell(<<"[", " ", "]">>) }

MissingCellPool ==
    {StringCell(stringify(list)) : list \in JobLists}
    \cup LegacyCells \cup EmptyCells \cup UnparsableCells \cup OtherCells

InitCell ==
    /\ missingCell \in MissingCellPool
    /\ parsedDays = Unset
    /\ NotCellIdle

ParseMissingDays ==
    /\ parsedDays = Unset
    /\ parsedDays' = Some(parseMissingDays(missingCell))
    /\ UNCHANGED <<missingCell, notCellVars>>

NextCell == ParseMissingDays

SpecCell == InitCell /\ [][NextCell]_vars

\* The ages of the files of a batch that can be read, in the order of the
\* batch
RECURSIVE AgesOfReadable(_)
AgesOfReadable(list) ==
    IF list = <<>> THEN <<>>
    ELSE (IF Head(list).content = Unreadable THEN <<>>
          ELSE findAgesInWorkbook(Head(list).content.sheets).ages)
            \o AgesOfReadable(Tail(list))

UnreadableNames == {fileList[i].name : i \in {j \in 1..Len(fileList) : fileList[j].content = Unreadable}}

ReadWarnings(upload) ==
    {i \in 1..Len(upload.warnings) : upload.warnings[i].kind = "read"}

FailedInIsolation(upload) ==
    /\ Len(upload.files) = Len(fileList)
    /\ \A name \in UnreadableNames :
          /\ \E i \in 1..Len(upload.files) :
                /\ upload.files[i].name = name
                /\ upload.files[i].error = READ_FAILED
                /\ upload.files[i].ages = <<>>
          /\ \E w \in ReadWarnings(upload) : name \in Elements(upload.warnings[w].items)
    /\ upload.ages = AgesOfReadable(fileList)

\* C19: in an upload batch a file that cannot be read fails alone: its
\* record carries the error message and no ages, it stays in the file list
\* of the batch and is named in the read-error warning, and the other files
\* of the batch are still parsed and contribute their ages.
C19_UnreadableFileIsolated ==
    (Finished /\ UnreadableNames # {}) => FailedInIsolation(CurrentUpload)

\* Four files of which the last cannot be read: the ages of the other three
C19_Witness ==
    /\ Finished
    /\ fileList = ThreeOfOneDate
    /\ CurrentUpload.ages = <<1, 2, 1, 3>>
    /\ \E i \in 1..4 :
          /\ CurrentUpload.files[i].name = ThreeOfOneDate[4].name
          /\ CurrentUpload.files[i].error = READ_FAILED

\* The file that cannot be read comes first
C19_FirstFileWitness ==
    /\ Finished
    /\ Len(fileList) = 2
    /\ fileList[1].content = Unreadable /\ fileList[2].content # Unreadable
    /\ CurrentUpload.ages # <<>>

-----------------------------------------------------------------------------
(* The runs the claims speak of                                            *)

RangeTaken == jobRange # Unset

\* The Monday of the calendar week of a day, as a day number
MondayOfWeek(day) == DayNumber(day) - ((WeekdayOf(day) + 6) % 7)

IsPreviousWeekWindow(today, start, end, days) ==
    /\ IsCalendarDate(today) /\ IsCalendarDate(start) /\ IsCalendarDate(end)
    /\ WeekdayOf(start) = 1
    /\ DayNumber(start) = MondayOfWeek(today) - 7
    /\ DayNumber(end) = DayNumber(start) + 5
    /\ WeekdayOf(end) = 6
    /\ Len(days) = 6
    /\ \A i \in 1..Len(days) :
          /\ IsCalendarDate(days[i])
          /\ DayNumber(days[i]) = DayNumber(start) + (i - 1)
          /\ DayNumber(days[i]) < MondayOfWeek(today)

\* C12: for every current date, the window of getPreviousWeekRange starts on
\* the Monday exactly 7 days before the Monday of the current calendar week,
\* ends on the Saturday 5 days after its start, and its days are the 6
\* consecutive dates from start to end; no day of the current week is in it.
C12_PreviousWeekWindow ==
    RangeTaken =>
        IsPreviousWeekWindow(formatDate_gs(now), formatDate_gs(jobRange.start),
                             formatDate_gs(jobRange.end), labelsOf(jobRange))

\* A run on Wednesday 19 June 2024
C12_Witness ==
    /\ RangeTaken
    /\ formatDate_gs(now) = DateText(2024, 6, 19)
    /\ formatDate_gs(jobRange.start) = DateText(2024, 6, 10)
    /\ formatDate_gs(jobRange.end) = DateText(2024, 6, 15)

\* A run on Monday 1 January 2024: the window lies in 2023
C12_NewYearWitness ==
    /\ RangeTaken
    /\ formatDate_gs(now) = DateText(2024, 1, 1)
    /\ labelsOf(jobRange) = Week1225


Aggregated == jobRecord # Unset

\* The files of the folder that bear the name of a day and a kind
FilesNamed(day, kind) ==
    {f \in driveFolder : f.name = FileName(day, KindSuffix(kind), xlsx)}

FileAbsent(day, kind) == FilesNamed(day, kind) = {}

\* The ages of the files that are there, day after day
RECURSIVE AgesPresent(_, _)
AgesPresent(days, kind) ==
    IF days = <<>> THEN <<>>
    ELSE (IF FileAbsent(Head(days), kind) THEN <<>>
          ELSE extractAgesFromExcel(
                   (CHOOSE f \in FilesNamed(Head(days), kind) : TRUE).content.sheets).ages)
            \o AgesPresent(Tail(days), kind)

MissingDaysOf(window, missing) ==
    /\ \A d \in Elements(window) :
          d \in Elements(missing) <=> (FileAbsent(d, "visit") \/ FileAbsent(d, "fever"))
    /\ Elements(missing) \subseteq Elements(window)
    /\ \A i, j \in 1..Len(missing) : i # j => missing[i] # missing[j]
    /\ Ascending(missing)

\* C13: in the record of aggregateWeek, missingDays holds a date of the
\* window exactly when the visit file or the fever file of that date is
\* absent, each date once, in ascending order, and no other date; an absent
\* file adds no age to the totals and does not stop the run.
C13_MissingDays ==
    /\ Aggregated =>
          /\ MissingDaysOf(labelsOf(jobRange), jobRecord.missingDays)
          /\ jobRecord.totalVisit = Len(AgesPresent(labelsOf(jobRange), "visit"))
          /\ jobRecord.totalFever = Len(AgesPresent(labelsOf(jobRange), "fever"))
    /\ jobPc = "failed" =>
          \E d \in Elements(labelsOf(jobRange)), kind \in Kinds :
              \E f \in FilesNamed(d, kind) : f.content = Unreadable

\* The week of 10 June 2024 with the visit files of two days and the fever
\* files of two days absent
C13_Witness ==
    /\ Aggregated
    /\ driveFolder = FolderOf(Week0610, {<<5, "visit">>, <<2, "visit">>, <<2, "fever">>,
                                         <<1, "fever">>}, {})
    /\ jobRecord.missingDays =
          <<DateText(2024, 6, 10), DateText(2024, 6, 11), DateText(2024, 6, 14)>>
    /\ jobRecord.totalVisit = 12 /\ jobRecord.totalFever = 4

\* No file of the week is there: six missing days and a record of zeros
C13_EmptyFolderWitness ==
    /\ Aggregated
    /\ jobRecord.missingDays = Week0226
    /\ jobRecord.totalVisit = 0 /\ jobRecord.totalFever = 0


\* A file that was found for a day of the window cannot be read
FoundUnreadable ==
    /\ RangeTaken
    /\ \E d \in Elements(labelsOf(jobRange)), kind \in Kinds :
          \E f \in FilesNamed(d, kind) : f.content = Unreadable

\* The ages of the files that are there and can be read, day after day
RECURSIVE AgesReadable(_, _)
AgesReadable(days, kind) ==
    IF days = <<>> THEN <<>>
    ELSE (IF \E f \in FilesNamed(Head(days), kind) : f.content # Unreadable
          THEN extractAgesFromExcel(
                   (CHOOSE f \in FilesNamed(Head(days), kind) : TRUE).content.sheets).ages
          ELSE <<>>)
            \o AgesReadable(Tail(days), kind)

\* C14: in the scheduled job a read error on a file that was found is
\* swallowed: the run goes on past aggregateWeek with zero ages from that
\* file and the ages of the other days and files, and persists its record.
C14_ReadErrorSwallowed ==
    (FoundUnreadable /\ jobPc \notin {"idle", "range"}) =>
        /\ jobPc \in {"aggregated", "done"}
        /\ jobRecord # Unset
        /\ jobRecord.totalVisit = Len(AgesReadable(labelsOf(jobRange), "visit"))
        /\ jobRecord.totalFever = Len(AgesReadable(labelsOf(jobRange), "fever"))
        /\ jobPc = "done" => jobRecord.weekStart \in persistedWeeks


\* The data rows of the report sheet: the rows below the header row
DataRows == IF Len(reportSheet.rows) <= 1 THEN <<>> ELSE Tail(reportSheet.rows)

\* The week a data row shows in its week_start cell
WeekShown(row) ==
    IF row[1].t = "date" THEN formatDate_gs(row[1].date) ELSE row[1].s

RowsOfWeek(week) == {i \in 1..Len(DataRows) : WeekShown(DataRows[i]) = week}

\* C15: after any sequence of runs from an empty report sheet, the sheet
\* holds exactly one data row for every weekStart that was persisted and no
\* other data row.
C15_OneRowPerWeek ==
    /\ Len(DataRows) = Cardinality(persistedWeeks)
    /\ \A week \in persistedWeeks : Cardinality(RowsOfWeek(week)) = 1

\* On a sheet whose cells keep the written text, the same holds.
OneRowPerWeekOfText == reportSheet.format = "plain" => C15_OneRowPerWeek


-----------------------------------------------------------------------------
(* The cells the claims speak of                                           *)

DaysParsed == parsedDays # Unset

\* C20: the list of missing days round-trips: for every list the job writes
\* into missing_days (the empty list too) parseMissingDays returns the same
\* list in the same order; a legacy cell "d1, d2" gives [d1, d2]; an empty
\* cell and a cell whose bracketed text cannot be parsed give [].
C20_MissingDaysRoundTrip ==
    DaysParsed =>
        /\ \A list \in JobLists :
              missingCell = StringCell(stringify(list)) => parsedDays.v = list
        /\ \A d1, d2 \in Elements(Week0610) :
              missingCell = StringCell(d1 \o <<",", " ">> \o d2) => parsedDays.v = <<d1, d2>>
        /\ missingCell \in EmptyCells \cup UnparsableCells => parsedDays.v = <<>>

\* The list of three days the job wrote is read back
C20_Witness ==
    /\ DaysParsed
    /\ missingCell = StringCell(stringify(<<Week0610[1], Week0610[2], Week0610[5]>>))
    /\ parsedDays.v = <<DateText(2024, 6, 10), DateText(2024, 6, 11), DateText(2024, 6, 14)>>

C20_EmptyListWitness ==
    DaysParsed /\ missingCell = StringCell(<<"[", "]">>) /\ parsedDays.v = <<>>

C20_LegacyWitness ==
    /\ DaysParsed
    /\ missingCell = StringCell(Week0610[1] \o <<",", " ">> \o Week0610[2])
    /\ parsedDays.v = <<Week0610[1], Week0610[2]>>

C20_UnparsableWitness ==
    /\ DaysParsed
    /\ missingCell = StringCell(<<"[", "\"">> \o Week0610[1] \o <<"\"", ",", "]">>)
    /\ parsedDays.v = <<>>


-----------------------------------------------------------------------------
(* The requests the claims speak of                                        *)

Answered == handlerPc = "done"

Succeeded == Answered /\ Len(responses) = 1 /\ responses[1].status = 200

\* The cell of a data row that stands under the header week_start, or the
\* first cell when no header bears that name
WeekColumn(header) ==
    IF \E i \in 1..Len(header) : header[i] = StringCell(<<"week_start">>)
    THEN CHOOSE i \in 1..Len(header) : header[i] = StringCell(<<"week_start">>)
    ELSE 1

HasWeek(row, column) ==
    /\ column <= Len(row)
    /\ \/ row[column].t = "number"
       \/ row[column].t = "string" /\ \E i \in 1..Len(row[column].s) : row[column].s[i] # " "

RowsWithWeek(values) ==
    IF values = <<>> THEN {}
    ELSE {i \in 2..Len(values) : HasWeek(values[i], WeekColumn(values[1]))}

SortedWeeks(weeks, values) ==
    /\ \A i \in 1..Len(weeks) :
          weeks[i].weekStart # <<>> /\ IsCalendarDate(weeks[i].weekStart)
    /\ \A i, j \in 1..Len(weeks) :
          i < j => ~DateTextBefore(weeks[i].weekStart, weeks[j].weekStart)
    /\ Len(weeks) = Cardinality(RowsWithWeek(values))

\* C16: on success the handler answers {weeks: [...]} with the reports
\* sorted by weekStart descending; every report has a non-empty weekStart,
\* and exactly the rows with an empty week_start are left out.
C16_WeeksSortedDescending ==
    Succeeded =>
        /\ DOMAIN responses[1].body = {"weeks"}
        /\ SortedWeeks(responses[1].body.weeks, valuesOf(upstream.data))

\* A row of text for the week of 10 June before a row of serial numbers for
\* the week of 17 June: the later week comes first
C16_Witness ==
    /\ Succeeded
    /\ upstream.data =
          Some(<<headers, TextRow(10, 18, 5, <<DateText(2024, 6, 11)>>),
                 SerialRow(17, 12, 0, <<>>)>>)
    /\ Len(responses[1].body.weeks) = 2
    /\ responses[1].body.weeks[1].weekStart = DateText(2024, 6, 17)
    /\ responses[1].body.weeks[2].weekStart = DateText(2024, 6, 10)
    /\ responses[1].body.weeks[2].missingDays = <<DateText(2024, 6, 11)>>

\* A row of blanks in week_start is left out
C16_LeftOutWitness ==
    /\ Succeeded
    /\ upstream.data =
          Some(<<headers, [TextRow(3, 1, 1, <<>>) EXCEPT ![1] = StringCell(<<" ", " ">>)],
                 SerialRow(10, 3, 3, <<>>)>>)
    /\ Len(responses[1].body.weeks) = 1
    /\ responses[1].body.weeks[1].weekStart = DateText(2024, 6, 10)

EnvMissing == ~env.clientEmail \/ ~env.privateKey \/ (~env.sheetsId /\ ~env.scriptId)

UpstreamFailed == upstream.token # "ok" \/ upstream.sheet # "ok"

ErrorMessages == {MISSING_ENV, "Token request failed", "Sheets API failed", "fetch failed"}

\* C17: the handler never lets an exception escape and answers exactly once:
\* with status 500 and a body of one error string, without weeks, when a
\* credential or the sheet id is missing, when the token request or the
\* sheet read is answered with a status that is not 2xx, and when a call of
\* the transport throws; with status 200 and weeks only when both upstream
\* calls succeeded.
C17_OneResponseNoEscape ==
    /\ ~escaped
    /\ Len(responses) <= 1
    /\ Answered =>
          /\ Len(responses) = 1
          /\ responses[1].status \in {200, 500}
          /\ (EnvMissing \/ UpstreamFailed) =>
                /\ responses[1].status = 500
                /\ DOMAIN responses[1].body = {"error"}
                /\ responses[1].body.error \in ErrorMessages
          /\ responses[1].status = 200 =>
                /\ ~EnvMissing /\ upstream.token = "ok" /\ upstream.sheet = "ok"
                /\ DOMAIN responses[1].body = {"weeks"}

\* The transport throws in the token request
C17_Witness ==
    /\ Answered
    /\ ~EnvMissing /\ upstream.token = "rejects"
    /\ responses = <<Response(500, [error |-> "fetch failed"])>>

\* The Sheets API answers with a status that is not 2xx
C17_SheetStatusWitness ==
    /\ Answered
    /\ upstream.token = "ok" /\ upstream.sheet = "status"
    /\ responses = <<Response(500, [error |-> "Sheets API failed"])>>

\* No sheet id in the environment and none in the script file
C17_MissingIdWitness ==
    /\ Answered
    /\ env = Env(TRUE, TRUE, FALSE, FALSE)
    /\ responses = <<Response(500, [error |-> MISSING_ENV])>>


-----------------------------------------------------------------------------
(* The loads the claims speak of                                           *)

\* C18: when App is unmounted while the fetch of the reports is outstanding,
\* no state update (reports, selectedWeek, loadError, isLoading) is applied
\* after the unmount.
C18_NoUpdateAfterUnmount ==
    [][~isMounted => UNCHANGED <<reports, selectedWeek, loadError, isLoading>>]_vars

\* The fetch brought two weeks after the unmount: nothing was set
C18_Witness ==
    /\ ~isMounted /\ loadPc = "done"
    /\ fetchResult = FetchResult("ok", "", Some(<<Week(17), Week(10)>>))
    /\ reports = <<>> /\ selectedWeek = <<>> /\ loadError = "" /\ isLoading = TRUE

\* The fetch was rejected after the unmount: no error was set
C18_RejectedWitness ==
    /\ ~isMounted /\ loadPc = "done"
    /\ fetchResult.kind = "rejects"
    /\ loadError = "" /\ isLoading = TRUE


-----------------------------------------------------------------------------
(* The empty result of the column selector                                 *)

\* The days of the window with a file that was found and read and holds no
\* valid age
DaysWithoutAges ==
    { d \in Elements(labelsOf(jobRange)) :
        \E kind \in Kinds : \E f \in FilesNamed(d, kind) :
            /\ f.content # Unreadable
            /\ extractAgesFromExcel(f.content.sheets).ages = <<>> }

\* C21: every caller of the column selector reports the empty result (no
\* sheet yields a valid age) for the file it came from, and aggregation goes
\* on with zero ages for that file.  For the scheduled job: the record of a
\* week with such a file names the day of the file (missingDays is the only
\* field of the record that speaks of single days), and the totals count
\* the other files.
C21_EmptyResultReported ==
    Aggregated =>
        /\ DaysWithoutAges \subseteq Elements(jobRecord.missingDays)
        /\ jobRecord.totalVisit = Len(AgesPresent(labelsOf(jobRange), "visit"))
        /\ jobRecord.totalFever = Len(AgesPresent(labelsOf(jobRange), "fever"))

\* The upload path attaches the message to the file and names the file in
\* the read warning, and the ages of the batch are those of the other files.
EmptyResultReportedOnUpload ==
    Finished =>
        \A i \in 1..Len(fileList) :
            (/\ fileList[i].content # Unreadable
             /\ findAgesInWorkbook(fileList[i].content.sheets).ages = <<>>) =>
                /\ \E j \in 1..Len(CurrentUpload.files) :
                      /\ CurrentUpload.files[j].name = fileList[i].name
                      /\ CurrentUpload.files[j].error = NO_AGES
                /\ \E w \in ReadWarnings(CurrentUpload) :
                      fileList[i].name \in Elements(CurrentUpload.warnings[w].items)
                /\ CurrentUpload.ages = AgesOfReadable(fileList)


-----------------------------------------------------------------------------
(* The report the client shows                                             *)

WeeksLoaded == {reports[i].weekStart : i \in 1..Len(reports)}

ShownReport == selectedReport(reports, selectedWeek)

ShowsSelectedOrFirst ==
    /\ ShownReport = Null <=> reports = <<>>
    /\ reports # <<>> =>
          /\ \E i \in 1..Len(reports) : ShownReport.v = reports[i]
          /\ selectedWeek \in WeeksLoaded => ShownReport.v.weekStart = selectedWeek
          /\ selectedWeek \notin WeeksLoaded => ShownReport.v = reports[1]

\* A load that succeeds while the component is mounted
LoadSucceeds ==
    /\ loadPc = "reading" /\ loadPc' = "done"
    /\ fetchResult.kind = "ok" /\ isMounted

KeepsSelection ==
    LoadSucceeds =>
        /\ selectedWeek # <<>> => selectedWeek' = selectedWeek
        /\ (selectedWeek = <<>> /\ reports' # <<>>) => selectedWeek' = reports'[1].weekStart
        /\ (selectedWeek = <<>> /\ reports' = <<>>) => selectedWeek' = <<>>

\* C22: the weekly report shown is the loaded report whose weekStart equals
\* the selected week; when no week is selected or the selected week matches
\* no loaded report it is the first loaded report, and it is null only when
\* no reports are loaded.  A load that succeeds sets the selected week to
\* the first (most recent) report only if no week was selected before.
C22_ShownReport == []ShowsSelectedOrFirst /\ [][KeepsSelection]_vars

\* Three weeks were loaded while the week of 10 June was selected: the
\* selection stays and the third report is shown
C22_Witness ==
    /\ loadPc = "done" /\ isMounted
    /\ reports = <<Week(24), Week(17), Week(10)>>
    /\ selectedWeek = DateText(2024, 6, 10)
    /\ ShownReport = Some(Week(10))

\* The selected week matches none of the two weeks loaded: the first is
\* shown
C22_NoMatchWitness ==
    /\ loadPc = "done" /\ isMounted
    /\ reports = <<Week(24), Week(17)>>
    /\ selectedWeek = DateText(2024, 6, 10)
    /\ ShownReport = Some(Week(24))

\* No week was selected: the load selects the first of the weeks
C22_LoadSelectsWitness ==
    /\ loadPc = "done" /\ isMounted
    /\ fetchResult.weeks = Some(<<Week(17), Week(10)>>)
    /\ selectedWeek = DateText(2024, 6, 17)


-----------------------------------------------------------------------------
(* The warnings of an upload, by category                                  *)

CategoryOrder == <<"pattern", "date", "read", "duplicate", "outOfRange", "missingDays">>

ClassOf(i) == Classification(fileList[i].name, uploadType)

\* Some file of the batch, or some date of its week check, is of the category
InCategory(kind) ==
    CASE kind = "pattern" -> \E i \in 1..Len(fileList) : ClassOf(i) = "pattern"
      [] kind = "date" -> \E i \in 1..Len(fileList) : ClassOf(i) = "date"
      [] kind = "read" -> \E i \in 1..Len(fileList) : parsedFiles[i].error # ""
      [] kind = "duplicate" ->
            \E i, j \in 1..Len(fileList) :
                /\ i # j /\ ClassOf(i) = "" /\ ClassOf(j) = ""
                /\ SubSeq(fileList[i].name, 1, 10) = SubSeq(fileList[j].name, 1, 10)
      [] kind = "outOfRange" ->
            CurrentUpload.weekCheck # Null /\ CurrentUpload.weekCheck.outOfRange # <<>>
      [] kind = "missingDays" ->
            CurrentUpload.weekCheck # Null /\ CurrentUpload.weekCheck.missingDays # <<>>

WarningKinds == [i \in 1..Len(CurrentUpload.warnings) |-> CurrentUpload.warnings[i].kind]

\* C23: the warnings of an upload are at most one per category, in the order
\* naming violation, invalid date, read error, duplicate dates, out-of-week
\* dates, missing weekdays, and the warning of a category is there exactly
\* when a file or a date is of that category: a batch without any issue has
\* no warning.
C23_OneWarningPerCategory ==
    Finished => WarningKinds = SelectSeq(CategoryOrder, InCategory)

\* A batch with a misnamed file, a file of 30 February and a file of
\* 12 June: four warnings, in the order of the categories
C23_Witness ==
    /\ Finished /\ fileList = ThreeKinds /\ uploadType = "visit"
    /\ WarningKinds = <<"pattern", "date", "outOfRange", "missingDays">>

\* The six files of one week: no warning
C23_NoIssueWitness ==
    /\ Finished /\ fileList = SixDayBatch /\ uploadType = "visit"
    /\ CurrentUpload.warnings = <<>>

\* An unreadable file beside two files of one date
C23_ReadAndDuplicateWitness ==
    /\ Finished
    /\ \E i \in 1..Len(WarningKinds) : WarningKinds[i] = "read"
    /\ \E i \in 1..Len(WarningKinds) : WarningKinds[i] = "duplicate"


-----------------------------------------------------------------------------
(* The end of a load                                                       *)

LoadEnded == loadPc = "done" /\ isMounted

LoadFailed == fetchResult.kind \in {"rejects", "notOk", "badJson"}

ReturnedWeeks == IF fetchResult.weeks = Undefined THEN <<>> ELSE fetchResult.weeks.v

\* C24: a load that fails (a response that is not ok, or a transport error)
\* while the component is mounted ends with isLoading false, a non-empty
\* loadError and no reports; a load that succeeds ends with isLoading
\* false, an empty loadError and the returned weeks as the reports.
C24_LoadOutcome ==
    LoadEnded =>
        /\ ~isLoading
        /\ LoadFailed => loadError # "" /\ reports = <<>>
        /\ ~LoadFailed => loadError = "" /\ reports = ReturnedWeeks

\* The response was not ok: the error is shown, without reports
C24_Witness ==
    /\ LoadEnded /\ fetchResult.kind = "notOk"
    /\ loadError = LOAD_FAILED /\ reports = <<>> /\ ~isLoading

\* fetch rejected with a message of its own
C24_TransportWitness ==
    /\ LoadEnded /\ fetchResult.kind = "rejects"
    /\ loadError \notin {"", LOAD_FAILED} /\ reports = <<>>

\* Two weeks were returned
C24_SuccessWitness ==
    /\ LoadEnded /\ fetchResult.kind = "ok"
    /\ Len(reports) = 2 /\ loadError = "" /\ ~isLoading


-----------------------------------------------------------------------------
(* The week of an earliest date that is a Sunday                           *)

InWindow(s) ==
    /\ DayNumber(weekCheck.weekStart) <= DayNumber(s)
    /\ DayNumber(s) <= DayNumber(weekCheck.weekEnd)

\* C25: in a result that is not null the earliest valid input date lies
\* within weekStart..weekEnd exactly when it is not a Sunday; when it is a
\* Sunday the week is the Monday..Saturday that ends the day before it, the
\* Sunday is in outOfRange and all six expected dates are in missingDays.
C25_SundayOutsideItsWeek ==
    (Analyzed /\ weekCheck # Null) =>
        /\ InWindow(EarliestInput) <=> WeekdayOf(EarliestInput) # 0
        /\ WeekdayOf(EarliestInput) = 0 =>
              /\ DayNumber(weekCheck.weekEnd) = DayNumber(EarliestInput) - 1
              /\ DayNumber(weekCheck.weekStart) = DayNumber(EarliestInput) - 6
              /\ WeekdayOf(weekCheck.weekStart) = 1
              /\ EarliestInput \in Elements(weekCheck.outOfRange)
              /\ {DayNumber(s) : s \in Elements(weekCheck.missingDays)} =
                    DayNumber(weekCheck.weekStart)..DayNumber(weekCheck.weekEnd)
              /\ Len(weekCheck.missingDays) = 6

\* Sunday 16 June and Monday 17 June: the week of 10 June, both dates
\* outside it, all six days missing
C25_Witness ==
    /\ Analyzed
    /\ dateStrings = <<DateText(2024, 6, 17), DateText(2024, 6, 16)>>
    /\ weekCheck # Null
    /\ weekCheck.weekStart = DateText(2024, 6, 10)
    /\ weekCheck.outOfRange = <<DateText(2024, 6, 16), DateText(2024, 6, 17)>>
    /\ Len(weekCheck.missingDays) = 6

\* The earliest date is a Saturday: it is the last day of its week
C25_SaturdayWitness ==
    /\ Analyzed
    /\ dateStrings = <<DateText(2024, 6, 15), DateText(2024, 6, 16)>>
    /\ weekCheck # Null
    /\ weekCheck.weekEnd = DateText(2024, 6, 15)


-----------------------------------------------------------------------------
(* The totals of a report and the sums over its bands                      *)

RECURSIVE SumTotalCount(_)
SumTotalCount(nodes) ==
    IF nodes = <<>> THEN 0 ELSE Head(nodes).totalCount + SumTotalCount(Tail(nodes))

RECURSIVE SumFeverCount(_)
SumFeverCount(nodes) ==
    IF nodes = <<>> THEN 0 ELSE Head(nodes).feverCount + SumFeverCount(Tail(nodes))

TotalsAreBandSums(totalVisit, totalFever, groups) ==
    /\ totalVisit = SumTotalCount(groups)
    /\ totalFever = SumFeverCount(groups)

\* The fever counts were built from the fever ages, as the upload view
\* builds them
FeverCountsBuilt == feverCounts = Some(buildCounts(feverAges))

\* C26: in every weekly record that aggregateWeek produces, and in every
\* upload-mode report, totalVisit is the sum of the totalCount of the
\* top-level bands and totalFever is the sum of their feverCount.
C26_TotalsAreBandSums ==
    /\ gsWeek # Unset =>
          TotalsAreBandSums(gsWeek.totalVisit, gsWeek.totalFever, gsWeek.combinedGroups)
    /\ (uploadView # Unset /\ FeverCountsBuilt) =>
          TotalsAreBandSums(uploadView.totalVisit, uploadView.totalFever, uploadGroups.v)

\* The record of a week aggregated from files
RecordTotalsAreBandSums ==
    Aggregated =>
        TotalsAreBandSums(jobRecord.totalVisit, jobRecord.totalFever, jobRecord.combinedGroups)

\* Five visits over four bands and four fever visits over two, aggregated
C26_Witness ==
    /\ gsWeek # Unset
    /\ visitAges = <<0, 3, 10, 20, 70>> /\ feverAges = <<70, 3, 3, 3>>
    /\ gsWeek.totalVisit = 5 /\ gsWeek.totalFever = 4
    /\ [g \in 1..5 |-> gsWeek.combinedGroups[g].totalCount] = <<2, 1, 1, 0, 1>>
    /\ [g \in 1..5 |-> gsWeek.combinedGroups[g].feverCount] = <<3, 0, 0, 0, 1>>

\* The same lists in upload mode
C26_UploadWitness ==
    /\ uploadView # Unset /\ FeverCountsBuilt
    /\ visitAges = <<0, 3, 10, 20, 70>> /\ feverAges = <<70, 3, 3, 3>>
    /\ uploadView.totalVisit = 5 /\ uploadView.totalFever = 4
    /\ SumFeverCount(uploadGroups.v) = 4


-----------------------------------------------------------------------------
(* SpecCalls: calls of handleUploadFiles for one dataset kind that overlap *)

MaxCalls == 2

\* One call: its files, what its files.map callbacks have returned so far,
\* and its position
Call(files) ==
    [ files |-> files,
      parsed |-> [i \in 1..Len(files) |-> Unset],
      pc |-> IF files = <<>> THEN "returned" ELSE "parsing" ]

\* A visit file of 10 June, a visit file of 12 June beside an unreadable
\* one of 10 June, a fever file of 12 June, and no file
CallBatches ==
    { << File(FileName(DateText(2024, 6, 10), visitSuffix, xlsx),
              Workbook(<<Sheet("A", <<NumberCell(3, 1), NumberCell(70, 1)>>)>>)) >>,
      << File(FileName(DateText(2024, 6, 12), visitSuffix, xlsx),
              Workbook(<<Sheet("A", <<NumberCell(10, 1)>>)>>)),
         File(FileName(DateText(2024, 6, 10), visitSuffix, xls), Unreadable) >>,
      << File(FileName(DateText(2024, 6, 12), feverSuffix, xlsx),
              Workbook(<<Sheet("A", <<NumberCell(40, 1)>>)>>)) >>,
      <<>> }

InitCalls ==
    /\ calls = <<>>
    /\ uploadType \in {"visit", "fever"}
    /\ fileList = <<>> /\ parsedFiles = <<>> /\ uploadPc = "returned"
    /\ visitUpload = EmptyUpload /\ feverUpload = EmptyUpload
    /\ AgeIdle /\ SheetIdle /\ CountIdle /\ WeekIdle
    /\ JobIdle /\ HandlerIdle /\ LoadIdle /\ CellIdle

callFrame ==
    <<fileList, uploadType, parsedFiles, uploadPc,
      ageVars, sheetVars, countVars, weekVars, jobVars, handlerVars, loadVars, cellVars>>

\* The state object of a call is merged into the one before it: the ages
\* are appended.
setUpload_Merging(previous, next) == [next EXCEPT !.ages = previous.ages \o @]

\* setter({ files, ages, warnings, weekCheck }): the object replaces the
\* state
setUpload(previous, next) == next

\* onChange of the file input of the kind: handleUploadFiles up to its
\* first await, or to its return for an empty list
StartUpload ==
    /\ Len(calls) < MaxCalls
    /\ \E batch \in CallBatches : calls' = Append(calls, Call(batch))
    /\ UNCHANGED <<visitUpload, feverUpload, callFrame>>

\* The callback of files.map of the call c completes for its file i.
ParseFileOfCall(c, i) ==
    /\ calls[c].pc = "parsing"
    /\ calls[c].parsed[i] = Unset
    /\ calls' = [calls EXCEPT ![c].parsed[i] =
                    parseFile(calls[c].files[i], suffixOf(uploadType))]
    /\ UNCHANGED <<visitUpload, feverUpload, callFrame>>

\* The call c after await Promise.all: sort, week check, warnings and the
\* setter of the kind
FinishCall(c) ==
    /\ calls[c].pc = "parsing"
    /\ \A i \in 1..Len(calls[c].parsed) : calls[c].parsed[i] # Unset
    /\ IF uploadType = "visit"
       THEN /\ visitUpload' = setUpload(visitUpload, uploadResult(calls[c].parsed))
            /\ UNCHANGED feverUpload
       ELSE /\ feverUpload' = setUpload(feverUpload, uploadResult(calls[c].parsed))
            /\ UNCHANGED visitUpload
    /\ calls' = [calls EXCEPT ![c].pc = "returned"]
    /\ UNCHANGED callFrame

NextCalls ==
    \/ StartUpload
    \/ \E c \in 1..Len(calls) : \E i \in 1..Len(calls[c].files) : ParseFileOfCall(c, i)
    \/ \E c \in 1..Len(calls) : FinishCall(c)

SpecCalls == InitCalls /\ [][NextCalls]_vars

-----------------------------------------------------------------------------
(* Overlapping uploads                                                     *)

Completes(c) == calls[c].pc = "parsing" /\ calls'[c].pc = "returned"

NamesOfCall(c) == {calls[c].files[i].name : i \in 1..Len(calls[c].files)}

NamesShown(upload) == {upload.files[i].name : i \in 1..Len(upload.files)}

\* The upload state holds what the call c alone has parsed
OwnBatchOnly(upload, c) ==
    /\ NamesShown(upload) = NamesOfCall(c)
    /\ Len(upload.files) = Len(calls[c].files)
    /\ upload.ages = flatAges(calls[c].parsed)
    /\ upload.weekCheck = analyzeWeekDates(validDatesOf(calls[c].parsed))
    /\ upload.warnings = buildUploadWarnings(calls[c].parsed, upload.weekCheck)

CompletionReplaces ==
    /\ \A c \in 1..Len(calls) : Completes(c) => OwnBatchOnly(CurrentUpload', c)
    /\ (\A c \in 1..Len(calls) : ~Completes(c)) => UNCHANGED <<visitUpload, feverUpload>>

\* C27: when calls of handleUploadFiles for one dataset kind overlap, each
\* call on completion replaces the whole upload state with the files, ages,
\* warnings and week check of its own batch alone, and nothing else changes
\* the state: what remains is the state of the call that completed last,
\* which can be the call that started first.
C27_LastCompletionWins == [][CompletionReplaces]_vars

\* Two calls overlapped, the second completed while the first was still
\* parsing, then the first: the state is that of the first call
C27_Witness ==
    /\ uploadType = "visit"
    /\ Len(calls) = 2
    /\ calls[1].pc = "returned" /\ calls[2].pc = "returned"
    /\ Len(calls[1].files) = 1 /\ Len(calls[2].files) = 2
    /\ OwnBatchOnly(visitUpload, 1)
    /\ visitUpload.ages = <<3, 70>>

\* The second call completed last
C27_SecondLastWitness ==
    /\ uploadType = "visit"
    /\ Len(calls) = 2
    /\ calls[1].pc = "returned" /\ calls[2].pc = "returned"
    /\ Len(calls[1].files) = 1 /\ Len(calls[2].files) = 2
    /\ OwnBatchOnly(visitUpload, 2)
    /\ visitUpload.ages = <<10>>


-----------------------------------------------------------------------------
(* The two normalizeAge side by side                                       *)

\* C28: for every raw cell value (a number, a string, null, anything else)
\* normalizeAge of App.jsx returns what normalizeAge of weekly-report.gs
\* returns.
C28_SameAgeBothPaths ==
    (appAge # Unset /\ gsAge # Unset) => appAge = gsAge

\* The two agree on every cell that is not a string holding digits
SameAgeOffDigitStrings ==
    (appAge # Unset /\ gsAge # Unset /\ gsAge = Null) => appAge = Null

SameAgeOfNumbers ==
    (appAge # Unset /\ gsAge # Unset /\ cell.t = "number") => appAge = gsAge


-----------------------------------------------------------------------------
(* SpecUpsert: one run of runWeeklyReport over a report sheet that holds   *)
(* rows already                                                            *)

\* A row written earlier: its week_start cell, and a number that tells the
\* rows apart
PriorRow(weekCell, n) ==
    << weekCell, StringCell(DateText(2024, 6, 1)), NumberCell(n, 1), NumberCell(0, 1),
       NumberCell(0, 1), StringCell(<<"[", "]">>), StringCell(<<"[", "]">>),
       StringCell(DateText(2024, 6, 2)) >>

TextOf(d) == StringCell(DateText(2024, 6, d))
DateCellOf(d) == DateCell(parseDateString(DateText(2024, 6, d)))

\* Sheets with the header row: no data row, the week of 10 June once, a
\* week twice after another week, a week as a date cell, two other weeks;
\* and sheets without it: an empty sheet, and one whose first row is data
PriorRowsPool ==
    { <<headers>>,
      <<headers, PriorRow(TextOf(10), 1)>>,
      <<headers, PriorRow(TextOf(3), 1), PriorRow(TextOf(10), 2), PriorRow(TextOf(10), 3)>>,
      <<headers, PriorRow(DateCellOf(10), 1), PriorRow(TextOf(17), 2)>>,
      <<headers, PriorRow(TextOf(17), 1), PriorRow(TextOf(3), 2)>>,
      <<>>,
      <<PriorRow(TextOf(10), 1), PriorRow(TextOf(3), 2)>> }

InitUpsert ==
    /\ now \in {makeDay(2024, 5, 18), makeDay(2024, 5, 25)}
    /\ driveFolder \in RunFolderPool
    /\ reportSheet \in {[format |-> f, rows |-> r] : f \in SheetFormats, r \in PriorRowsPool}
    /\ jobPc = "idle" /\ jobRange = Unset /\ jobRecord = Unset
    /\ runsLeft = 0 /\ persistedWeeks = {}
    /\ NotJobIdle

SpecUpsert == InitUpsert /\ [][NextJob]_vars

-----------------------------------------------------------------------------
(* What upsertReportRow leaves alone                                       *)

HeaderFirst == reportSheet.rows # <<>> /\ reportSheet.rows[1] = headers

Upserts == jobPc = "aggregated" /\ jobPc' = "done"

\* The data rows whose week_start cell is the text of the week
RowsOfText(week) == {i \in 1..Len(DataRows) : DataRows[i][1] = StringCell(week)}

UpsertKeepsOtherRows ==
    (Upserts /\ HeaderFirst) =>
        /\ Len(DataRows') >= Len(DataRows)
        /\ \A i \in 1..Len(DataRows) :
              i \notin RowsOfText(jobRecord.weekStart) => DataRows'[i] = DataRows[i]
        /\ IF RowsOfText(jobRecord.weekStart) = {}
           THEN /\ Len(DataRows') = Len(DataRows) + 1
                /\ \A i \in 1..Len(DataRows) : DataRows'[i] = DataRows[i]
           ELSE /\ Len(DataRows') = Len(DataRows)
                /\ \A i \in 1..Len(DataRows) :
                      i # Min(RowsOfText(jobRecord.weekStart)) => DataRows'[i] = DataRows[i]

\* C29: on a report sheet whose first row is the header row, upsertReportRow
\* never reduces the number of data rows and leaves every data row whose
\* week_start differs from the weekStart of the result as it is, in content
\* and position; it changes at most one row, the first whose week_start
\* equals that weekStart, or else adds exactly one row.
C29_UpsertKeepsOtherRows == [][UpsertKeepsOtherRows]_vars

\* The week of 10 June was on the sheet twice, after another week: the
\* first of the two rows holds the new record, the other two are as before
C29_Witness ==
    /\ jobPc = "done" /\ jobRecord.weekStart = DateText(2024, 6, 10)
    /\ Len(DataRows) = 3
    /\ DataRows[1] = PriorRow(TextOf(3), 1)
    /\ DataRows[2][1] = TextOf(10) /\ DataRows[2] # PriorRow(TextOf(10), 2)
    /\ DataRows[3] = PriorRow(TextOf(10), 3)

\* The week was on the sheet as a date cell: the row stays and one row is
\* added
C29_AppendWitness ==
    /\ jobPc = "done" /\ jobRecord.weekStart = DateText(2024, 6, 10)
    /\ Len(DataRows) = 3
    /\ DataRows[1] = PriorRow(DateCellOf(10), 1)
    /\ DataRows[2] = PriorRow(TextOf(17), 2)


-----------------------------------------------------------------------------
(* Files whose date part names no day, in the week check                   *)

DatePart(i) == SubSeq(fileList[i].name, 1, 10)

InvalidDateFiles == {i \in 1..Len(fileList) : ClassOf(i) = "date"}
ValidDateFiles == {i \in 1..Len(fileList) : ClassOf(i) = ""}

EarliestValidFile ==
    CHOOSE i \in ValidDateFiles :
        \A j \in ValidDateFiles : DayNumber(DatePart(i)) <= DayNumber(DatePart(j))

WarnedItems(kind) ==
    UNION { Elements(CurrentUpload.warnings[w].items) :
              w \in {v \in 1..Len(CurrentUpload.warnings) : CurrentUpload.warnings[v].kind = kind} }

\* C30: a file whose name follows the pattern but whose date part is no
\* calendar date hands that date part to the week check: when another file
\* has a valid date the invalid text is in outOfRange, the file is warned
\* of both as an invalid date and as out of the week, and the text does not
\* determine weekStart; when no file has a valid date the week check is
\* null and there is no out-of-week and no missing-weekday warning.
C30_InvalidDateInWeekCheck ==
    Finished =>
        IF ValidDateFiles # {}
        THEN /\ CurrentUpload.weekCheck # Null
             /\ DayNumber(CurrentUpload.weekCheck.weekStart) =
                   DayNumber(DatePart(EarliestValidFile))
                       - ((WeekdayOf(DatePart(EarliestValidFile)) + 6) % 7)
             /\ \A i \in InvalidDateFiles :
                   /\ DatePart(i) \in Elements(CurrentUpload.weekCheck.outOfRange)
                   /\ fileList[i].name \in WarnedItems("date")
                   /\ DatePart(i) \in WarnedItems("outOfRange")
        ELSE /\ CurrentUpload.weekCheck = Null
             /\ WarnedItems("outOfRange") = {} /\ WarnedItems("missingDays") = {}
             /\ \A w \in 1..Len(CurrentUpload.warnings) :
                   CurrentUpload.warnings[w].kind \notin {"outOfRange", "missingDays"}

\* A file of 30 February beside a file of 12 June: the week of 10 June,
\* with 2024-02-30 out of range
C30_Witness ==
    /\ Finished /\ fileList = ThreeKinds /\ uploadType = "visit"
    /\ CurrentUpload.weekCheck.weekStart = DateText(2024, 6, 10)
    /\ CurrentUpload.weekCheck.outOfRange = <<DateText(2024, 2, 30)>>
    /\ DateText(2024, 2, 30) \in WarnedItems("outOfRange")

\* A file of 30 February alone: no week check
C30_NoValidDateWitness ==
    /\ Finished /\ Len(fileList) = 1 /\ InvalidDateFiles = {1}
    /\ CurrentUpload.weekCheck = Null
    /\ fileList[1].name \in WarnedItems("date")

=============================================================================
